---- MODULE Spec2Model ----
(***************************************************************************)
(* A model of the SingleStore DB-API layer (singlestore/connection.py):    *)
(* one Connection and one Cursor created from it, driven against a backend *)
(* driver whose cursor holds a list of result sets.  Every public method   *)
(* is one action; the outcome of the last call is kept in `ret`.           *)
(*                                                                         *)
(* Python's None is written as the empty sequence <<>> and a present value *)
(* v as <<v>> (rownumber, _many_queries); description is None (<<>>) or a  *)
(* non-empty list of columns, as in the code.                              *)
(***************************************************************************)
EXTENDS Integers, Sequences, FiniteSets, TLC

VARIABLES
    c_conn,        \* Connection._conn: "session" or "None"
    cursor,        \* Cursor._cursor: "absent" (no Cursor made), "handle", "None"
    cur_conn,      \* Cursor._conn: "conn" or "None"
    rownumber,     \* Cursor.rownumber: <<>> or <<n>>
    description,   \* Cursor.description: <<>> or a list of columns
    converters,    \* Cursor._converters: <<>> (attribute never set) or <<list of (i, conv)>>
    many_queries,  \* Cursor._many_queries: <<>> or <<[oper, rest]>>
    b_sets,        \* backend cursor: result sets left, the head is current
    b_pos,         \* backend cursor: rows of the current set already read
    returned,      \* rows handed to the caller since the cursor was last
                   \* positioned, and the backend position it started from
    em,            \* history of the last executemany (see EmStart)
    ret,           \* outcome of the last call
    kwargs,        \* the keyword arguments connect() / build_params is given
    options,       \* the process-wide options read by get_option
    connection_params,  \* Connection.connection_params
    b_session_vars,     \* backend session: what each variable was last set to
    server         \* run_cloud_function: the AwaitableUvicornServer, its serve()
                   \* task and the tasks awaiting wait_for_startup()

vars == <<c_conn, cursor, cur_conn, rownumber, description, converters,
          many_queries, b_sets, b_pos, returned, em, ret,
          kwargs, options, connection_params, b_session_vars, server>>

configVars == <<kwargs, options, connection_params>>
connVars == <<c_conn, configVars, b_session_vars, server>>
cursorVars == <<cursor, cur_conn, rownumber, description, converters, many_queries>>
backendVars == <<b_sets, b_pos>>

(***************************************************************************)
(* Bounds                                                                  *)
(***************************************************************************)
MaxRows == 2        \* rows in one result set
MaxParams == 3      \* parameter sets handed to executemany
MaxRownumber == 4   \* fetches are cut off once rownumber reaches this

(***************************************************************************)
(* Program constants                                                       *)
(***************************************************************************)
ClosedCode == 2048        \* InterfaceError(2048, '... is closed.')
NoMoreResults == 2053     \* errno of the backend's "no more results"
OtherErrno == NoMoreResults + 1   \* some other backend error number
SET_FLAG == 2048
SET_CODE == 247
ENUM == 247               \* FIELD_TYPE.ENUM, the code the SET lookup uses
arraysize == 100

None == <<>>
Some(x) == <<x>>

(***************************************************************************)
(* Exceptions.  conv counts the passes through convert_exception.          *)
(***************************************************************************)
NoExc == [type |-> "none", errno |-> 0, conv |-> 0]
InterfaceError(code) == [type |-> "InterfaceError", errno |-> code, conv |-> 0]
NativeError(code) == [type |-> "NativeError", errno |-> code, conv |-> 0]
ReferenceError == [type |-> "ReferenceError", errno |-> 0, conv |-> 0]
ValueError == [type |-> "ValueError", errno |-> 0, conv |-> 0]
AttributeError == [type |-> "AttributeError", errno |-> 0, conv |-> 0]
StopIteration == [type |-> "StopIteration", errno |-> 0, conv |-> 0]

\* Driver.convert_exception: a backend-native error becomes one of the
\* standard kinds and keeps the backend's error number.
convert_exception(exc) ==
    [type |-> IF exc.type = "NativeError" THEN "StandardError" ELSE exc.type,
     errno |-> exc.errno,
     conv |-> exc.conv + 1]

\* getattr(exc, 'errno', -1)
errno_of(exc) == IF exc.type \in {"StandardError", "NativeError", "InterfaceError"}
                 THEN exc.errno ELSE -1

Errnos == {NoMoreResults, OtherErrno}
BackendErrors == {NativeError(e) : e \in Errnos}

(***************************************************************************)
(* Backend result sets                                                     *)
(***************************************************************************)
Col(code, nullok, flags) == [type_code |-> code, null_ok |-> nullok, flags |-> flags]

BDescA == <<Col(3, 0, 0)>>
BDescB == <<Col(254, 1, SET_FLAG), Col(247, 0, 0), Col(3, 0, SET_FLAG), Col(254, 0, 0)>>
BDescs == {BDescA, BDescB}

\* a result set: its column list (<<>> for a statement without one) and rows
NoResult == [desc |-> <<>>, nrows |-> 0]
ResultSets == {NoResult} \cup [desc : BDescs, nrows : 0..MaxRows]

\* what a statement produces: one result set, or two of them
Responses ==
    {<<r>> : r \in ResultSets}
    \cup {<<[desc |-> BDescA, nrows |-> MaxRows], s>> :
              s \in {NoResult, [desc |-> BDescB, nrows |-> 1]}}

b_description(sets) == IF sets = <<>> THEN <<>> ELSE Head(sets).desc
b_nrows(sets) == IF sets = <<>> THEN 0 ELSE Head(sets).nrows

\* the driver's converter table: the type codes that have a converter
driver_converters == {3, SET_CODE}

HasBit(flags, bit) == (flags \div bit) % 2 = 1


(***************************************************************************)
(* Outcome of a call: the exception that reached the caller (NoExc when    *)
(* the call returned), the returned value, the rows handed over, the       *)
(* length of the formatted result, the backend calls made in order, the    *)
(* (statement, parameters) pairs submitted to the backend, and the         *)
(* exception the backend raised (NoExc when it raised none); ans is the    *)
(* answer of the driver's liveness probe where the call asked for one, and *)
(* inflight the exception under way when __exit__ was called.              *)
(***************************************************************************)
Ret(op, exc, value, rows, len, calls, sub) ==
    [op |-> op, exc |-> exc, value |-> value, rows |-> rows, len |-> len,
     calls |-> calls, sub |-> sub, bexc |-> NoExc, ans |-> "none",
     inflight |-> NoExc]

\* the same, with the exception the backend raised inside the call
RetB(op, exc, value, rows, len, calls, sub, bexc) ==
    [Ret(op, exc, value, rows, len, calls, sub) EXCEPT !.bexc = bexc]

\* a call of a backend method, with its size argument where it has one
BCall(name, arg) == [name |-> name, arg |-> arg]

Raise(op, exc, calls, sub) == Ret(op, exc, "none", <<>>, 0, calls, sub)

Closed(op, what) == Raise(op, InterfaceError(ClosedCode), <<>>, <<>>)

\* the closed check left out
cursor_is_closed_unchecked(cur) == FALSE

\* `if self._cursor is None` at the head of every Cursor method
cursor_is_closed(cur) == cur = "None"

\* statements: plain SQL text number id, or text built around a name
Stmt(kind, id, name) == [kind |-> kind, id |-> id, name |-> name]
Sql(i) == Stmt("sql", i, <<>>)
NoStmt == Stmt("none", 0, <<>>)

NoneReturned == [start |-> 0, rows |-> <<>>]
hand_over(rows) == [returned EXCEPT !.rows = @ \o rows]

NoEm == [live |-> FALSE, oper |-> NoStmt, n |-> 0, k |-> 0, sub |-> <<>>]

(***************************************************************************)
(* Cursor._set_description                                                 *)
(***************************************************************************)
\* the SET flag not looked at
column_converter_by_type(col) ==
    IF col.type_code \in driver_converters THEN col.type_code ELSE -1

\* the converter of one column: the code it is registered under, -1 for none
column_converter(col) ==
    IF col.flags # 0 /\ HasBit(col.flags, SET_FLAG)
    THEN (IF SET_CODE \in driver_converters THEN SET_CODE ELSE -1)
    ELSE (IF col.type_code \in driver_converters THEN col.type_code ELSE -1)

\* Description(*item[:9]): null_ok becomes a strict boolean
describe(col) == [type_code |-> col.type_code, null_ok |-> col.null_ok # 0,
                  flags |-> col.flags]

converter_list(bdesc) ==
    SelectSeq([i \in 1..Len(bdesc) |-> <<i - 1, column_converter(bdesc[i])>>],
              LAMBDA p : p[2] # -1)

set_description(bdesc, desc, conv) ==
    IF bdesc # <<>>
    THEN [description |-> [i \in 1..Len(bdesc) |-> describe(bdesc[i])],
          converters |-> <<converter_list(bdesc)>>]
    ELSE [description |-> desc, converters |-> conv]

(***************************************************************************)
(* Cursor.execute past the closed check, against a backend that answers    *)
(* resp: the fields of the cursor and of the backend afterwards, and the   *)
(* exception that leaves execute.                                          *)
(***************************************************************************)
Raises(e) == [raises |-> TRUE, exc |-> e, sets |-> <<>>]
Answers(sets) == [raises |-> FALSE, exc |-> NoExc, sets |-> sets]

ExecOutcomes ==
    {Raises(e) : e \in BackendErrors} \cup {Answers(s) : s \in Responses}

\* fewer of them, where the result sets themselves do not matter
FewOutcomes ==
    {Raises(NativeError(OtherErrno)), Answers(<<NoResult>>),
     Answers(<<[desc |-> BDescA, nrows |-> 1]>>)}

\* description kept from the statement before
execute_cleared_keeps_description == [description |-> description, rownumber |-> None]

\* rownumber kept from the statement before
execute_cleared_keeps_rownumber == [description |-> None, rownumber |-> rownumber]

\* the fields execute clears before it calls the backend
execute_cleared == [description |-> None, rownumber |-> None]

\* rownumber once the statement has run
execute_rownumber == Some(0)

execute(resp) ==
    LET sd == set_description(b_description(resp.sets),
                              execute_cleared.description, converters)
    IN  IF resp.raises
        THEN [exc |-> convert_exception(resp.exc),
              description |-> execute_cleared.description,
              rownumber |-> execute_cleared.rownumber,
              converters |-> converters,
              b_sets |-> <<>>, b_pos |-> 0]
        ELSE [exc |-> NoExc,
              description |-> sd.description,
              rownumber |-> execute_rownumber,
              converters |-> sd.converters,
              b_sets |-> resp.sets, b_pos |-> 0]

Sqls == {Sql(1), Sql(2)}

\* Cursor.execute(oper, params); params = 0 stands for no parameters
Execute(oper, params, resp) ==
    /\ cursor # "absent"
    /\ IF cursor_is_closed(cursor)
       THEN /\ ret' = Closed("execute", "Cursor")
            /\ UNCHANGED <<connVars, cursorVars, backendVars, returned, em>>
       ELSE LET x == execute(resp) IN
            /\ description' = x.description
            /\ rownumber' = x.rownumber
            /\ converters' = x.converters
            /\ b_sets' = x.b_sets
            /\ b_pos' = x.b_pos
            /\ returned' = NoneReturned
            /\ em' = NoEm
            /\ ret' = RetB("execute", x.exc, "none", <<>>, 0,
                           <<BCall("execute", 0)>>, <<<<oper, params>>>>, resp.exc)
            /\ UNCHANGED <<connVars, cursor, cur_conn, many_queries>>

(***************************************************************************)
(* Cursor.close                                                            *)
(***************************************************************************)
CloseOutcomes == {NoExc, ReferenceError} \cup BackendErrors

\* ReferenceError handled like any other error
close_exc_no_swallow(e) ==
    IF e.type = "none" THEN NoExc ELSE convert_exception(e)

\* the exception that leaves close when the backend's close raised e
close_exc(e) ==
    IF e.type \in {"none", "ReferenceError"} THEN NoExc ELSE convert_exception(e)

CursorClose(e) ==
    /\ cursor # "absent"
    /\ IF cursor_is_closed(cursor)
       THEN /\ ret' = Closed("close", "Cursor")
            /\ UNCHANGED <<connVars, cursorVars, backendVars, returned, em>>
       ELSE /\ ret' = RetB("close", close_exc(e), "none", <<>>, 0,
                           <<BCall("close", 0)>>, <<>>, e)
            /\ IF close_exc(e) = NoExc
               THEN cursor' = "None" /\ cur_conn' = "None"
               ELSE UNCHANGED <<cursor, cur_conn>>
            /\ em' = NoEm
            /\ UNCHANGED <<connVars, rownumber, description, converters,
                           many_queries, backendVars, returned>>

\* what leaves a with block: the exception of close if it raised one, else
\* the exception the body raised (__exit__ returns None)
exit_exc(inflight, x) == IF x # NoExc THEN x ELSE inflight

\* the exceptions a with block's body may have raised
BodyOutcomes == {NoExc, ValueError}

\* Cursor.__exit__: self.close()
CursorExit(inflight, e) ==
    /\ cursor # "absent"
    /\ IF cursor_is_closed(cursor)
       THEN /\ ret' = [Closed("cursor.__exit__", "Cursor") EXCEPT !.inflight = inflight]
            /\ UNCHANGED <<connVars, cursorVars, backendVars, returned, em>>
       ELSE /\ ret' = [RetB("cursor.__exit__", exit_exc(inflight, close_exc(e)),
                            "none", <<>>, 0, <<BCall("close", 0)>>, <<>>, e)
                       EXCEPT !.inflight = inflight]
            /\ IF close_exc(e) = NoExc
               THEN cursor' = "None" /\ cur_conn' = "None"
               ELSE UNCHANGED <<cursor, cur_conn>>
            /\ em' = NoEm
            /\ UNCHANGED <<connVars, rownumber, description, converters,
                           many_queries, backendVars, returned>>


(***************************************************************************)
(* Cursor.executemany and the queue it leaves for nextset                  *)
(***************************************************************************)
\* parameter sets: 0 is an empty set, i > 0 the i-th non-empty one
ParamSeqs == {<<>>} \cup UNION {[1..k -> {0}] \cup {[i \in 1..k |-> i]} \cup
                                {[i \in 1..k |-> IF i = 1 THEN 0 ELSE i]}
                                : k \in 1..MaxParams}

\* ((oper, params) for params in param_seq), not yet advanced
many_new(oper, param_seq) == [oper |-> oper, rest |-> param_seq]

\* the generator is read but not advanced
many_next_stuck(q) == [pair |-> <<q.oper, Head(q.rest)>>, queue |-> q]

\* next(self._many_queries): the pair taken and the generator afterwards
many_next(q) == [pair |-> <<q.oper, Head(q.rest)>>,
                 queue |-> [oper |-> q.oper, rest |-> Tail(q.rest)]]

ExecuteMany(oper, param_seq0, resp) ==
    /\ cursor # "absent"
    /\ IF cursor_is_closed(cursor)
       THEN /\ ret' = Closed("executemany", "Cursor")
            /\ UNCHANGED <<connVars, cursorVars, backendVars, returned, em>>
       ELSE LET param_seq == IF param_seq0 = <<>> THEN <<0>> ELSE param_seq0
                queued == param_seq[1] # 0
                nx == many_next(many_new(oper, param_seq))
                pair == IF queued THEN nx.pair ELSE <<oper, 0>>
                x == execute(resp)
                \* a failure of execute is caught and converted once more;
                \* otherwise _set_description and rownumber = 0 run again
                sd == set_description(b_description(x.b_sets),
                                      x.description, x.converters)
            IN
            /\ many_queries' = IF queued THEN Some(nx.queue) ELSE many_queries
            /\ description' = IF x.exc = NoExc THEN sd.description ELSE x.description
            /\ converters' = IF x.exc = NoExc THEN sd.converters ELSE x.converters
            /\ rownumber' = IF x.exc = NoExc THEN Some(0) ELSE x.rownumber
            /\ b_sets' = x.b_sets
            /\ b_pos' = x.b_pos
            /\ returned' = NoneReturned
            /\ em' = IF x.exc = NoExc /\ \A i \in 1..Len(param_seq) : param_seq[i] # 0
                     THEN [live |-> TRUE, oper |-> oper, n |-> Len(param_seq),
                           k |-> 0, sub |-> <<pair>>]
                     ELSE NoEm
            /\ ret' = RetB("executemany",
                           IF x.exc = NoExc THEN NoExc ELSE convert_exception(x.exc),
                           "none", <<>>, 0, <<BCall("execute", 0)>>, <<pair>>, resp.exc)
            /\ UNCHANGED <<connVars, cursor, cur_conn>>

(***************************************************************************)
(* Cursor.nextset                                                          *)
(***************************************************************************)
\* the backend's nextset: an error, or whether it moved to another set
NextsetOutcomes == {NoExc} \cup BackendErrors

b_nextset(sets) ==
    IF Len(sets) > 1 THEN [out |-> TRUE, sets |-> Tail(sets)]
                     ELSE [out |-> FALSE, sets |-> <<>>]

\* the except branch of the native path: what nextset does with the
\* translated error exc
nextset_on_error(exc) ==
    IF errno_of(exc) = NoMoreResults
    THEN [exc |-> NoExc, value |-> "False", rownumber |-> None]
    ELSE [exc |-> NoExc, value |-> "True", rownumber |-> Some(0)]

\* the history of the last executemany after one more nextset call
em_step(r) ==
    IF em.live /\ r.exc = NoExc /\ em.k < em.n
    THEN [em EXCEPT !.k = @ + 1, !.sub = @ \o r.sub]
    ELSE NoEm

NextSet(resp, e) ==
    /\ cursor # "absent"
    /\ IF cursor_is_closed(cursor)
       THEN /\ ret' = Closed("nextset", "Cursor")
            /\ UNCHANGED <<connVars, cursorVars, backendVars, returned, em>>
       ELSE IF many_queries # None
       THEN LET q == many_queries[1] IN
            IF q.rest # <<>>
            THEN LET nx == many_next(q)
                     x == execute(resp)
                     r == RetB("nextset", x.exc,
                               IF x.exc = NoExc THEN "True" ELSE "none",
                               <<>>, 0, <<BCall("execute", 0)>>, <<nx.pair>>, resp.exc)
                 IN
                 /\ many_queries' = Some(nx.queue)
                 /\ description' = x.description
                 /\ rownumber' = x.rownumber
                 /\ converters' = x.converters
                 /\ b_sets' = x.b_sets
                 /\ b_pos' = x.b_pos
                 /\ returned' = NoneReturned
                 /\ ret' = r
                 /\ em' = em_step(r)
                 /\ UNCHANGED <<connVars, cursor, cur_conn>>
            ELSE LET r == Ret("nextset", NoExc, "False", <<>>, 0, <<>>, <<>>) IN
                 /\ many_queries' = None
                 /\ rownumber' = None
                 /\ ret' = r
                 /\ em' = em_step(r)
                 /\ UNCHANGED <<connVars, cursor, cur_conn, description, converters,
                                backendVars, returned>>
       ELSE IF e # NoExc
       THEN LET h == nextset_on_error(convert_exception(e)) IN
            /\ rownumber' = h.rownumber
            /\ ret' = RetB("nextset", h.exc, h.value, <<>>, 0,
                           <<BCall("nextset", 0)>>, <<>>, e)
            /\ em' = NoEm
            /\ UNCHANGED <<connVars, cursor, cur_conn, description, converters,
                           many_queries, backendVars, returned>>
       ELSE LET b == b_nextset(b_sets)
                sd == set_description(b_description(b.sets), description, converters)
            IN
            /\ b_sets' = b.sets
            /\ b_pos' = 0
            /\ description' = sd.description
            /\ converters' = sd.converters
            /\ rownumber' = IF b.out THEN Some(0) ELSE None
            /\ returned' = NoneReturned
            /\ ret' = Ret("nextset", NoExc, IF b.out THEN "True" ELSE "False",
                          <<>>, 0, <<BCall("nextset", 0)>>, <<>>)
            /\ em' = NoEm
            /\ UNCHANGED <<connVars, cursor, cur_conn, many_queries>>


(***************************************************************************)
(* The backend cursor's fetch primitives.  Rows of a result set are        *)
(* numbered 1..nrows; 0 in a list of rows stands for None.                 *)
(***************************************************************************)
Min(a, b) == IF a < b THEN a ELSE b
Max(a, b) == IF a > b THEN a ELSE b
Range(a, b) == [i \in 1..(b - a + 1) |-> a + i - 1]

b_fetchone(sets, pos) ==
    IF pos < b_nrows(sets) THEN [row |-> pos + 1, pos |-> pos + 1]
                           ELSE [row |-> 0, pos |-> pos]

\* the bulk primitive; called with size 1 it hands out the row it handed
\* out last, over and over (the mysql.connector defect the code works around)
b_fetchmany(sets, pos, size) ==
    IF size = 1 /\ pos > 0 THEN [rows |-> <<pos>>, pos |-> pos]
    ELSE LET last == Min(pos + size, b_nrows(sets))
         IN  [rows |-> Range(pos + 1, last), pos |-> Max(pos, last)]

b_fetchall(sets, pos) ==
    [rows |-> Range(pos + 1, b_nrows(sets)), pos |-> Max(pos, b_nrows(sets))]

FetchOutcomes == {NoExc} \cup BackendErrors

\* the rows of a fetched list (None entries left out)
real_rows(out) == SelectSeq(out, LAMBDA r : r # 0)

\* len(format_results(fmt, description, convert_rows(out, converters))):
\* every entry of out is converted and rendered, none is added or dropped
formatted_len(out) == Len(out)

\* fetches stop once rownumber has reached MaxRownumber
FetchBound ==
    IF rownumber = None THEN TRUE
    ELSE cursor_is_closed(cursor) \/ rownumber[1] < MaxRownumber

(***************************************************************************)
(* Cursor.fetchone past the closed check (also the body of next)           *)
(***************************************************************************)
fetchone(e) ==
    LET b == b_fetchone(b_sets, b_pos)
        got == b.row # 0
    IN  IF e # NoExc
        THEN [exc |-> convert_exception(e), value |-> "none", rows |-> <<>>,
              rownumber |-> rownumber, b_pos |-> b_pos]
        ELSE [exc |-> IF got /\ converters = None THEN AttributeError ELSE NoExc,
              value |-> IF got /\ converters = None THEN "none"
                        ELSE IF got THEN "row" ELSE "None",
              rows |-> IF got /\ converters # None THEN <<b.row>> ELSE <<>>,
              rownumber |-> IF got /\ rownumber # None
                            THEN Some(rownumber[1] + 1) ELSE rownumber,
              b_pos |-> b.pos]

FetchOne(e) ==
    /\ cursor # "absent"
    /\ FetchBound
    /\ IF cursor_is_closed(cursor)
       THEN /\ ret' = Closed("fetchone", "Cursor")
            /\ UNCHANGED <<connVars, cursorVars, backendVars, returned, em>>
       ELSE LET f == fetchone(e) IN
            /\ rownumber' = f.rownumber
            /\ b_pos' = f.b_pos
            /\ returned' = hand_over(f.rows)
            /\ ret' = RetB("fetchone", f.exc, f.value, f.rows, Len(f.rows),
                           <<BCall("fetchone", 0)>>, <<>>, e)
            /\ UNCHANGED <<connVars, cursor, cur_conn, description, converters,
                           many_queries, b_sets, em>>

(***************************************************************************)
(* Cursor.fetchmany.  size is <<>> (not given) or <<n>>.                   *)
(***************************************************************************)
Sizes == {None} \cup {Some(n) : n \in -1..2}

effective_size(size) ==
    IF size # None THEN Max(size[1], 1) ELSE Max(arraysize, 1)

\* the bulk primitive whatever the size
fetchmany_backend_bulk(n) ==
    LET b == b_fetchmany(b_sets, b_pos, n)
    IN  [call |-> BCall("fetchmany", n), out |-> b.rows, pos |-> b.pos]

\* the backend call fetchmany makes for an effective size: the primitive
\* used, the list it returns and the backend position afterwards
fetchmany_backend(n) ==
    IF n = 1
    THEN LET b == b_fetchone(b_sets, b_pos)
         IN  [call |-> BCall("fetchone", 0), out |-> <<b.row>>, pos |-> b.pos]
    ELSE LET b == b_fetchmany(b_sets, b_pos, n)
         IN  [call |-> BCall("fetchmany", n), out |-> b.rows, pos |-> b.pos]

FetchMany(size, e) ==
    /\ cursor # "absent"
    /\ FetchBound
    /\ IF cursor_is_closed(cursor)
       THEN /\ ret' = Closed("fetchmany", "Cursor")
            /\ UNCHANGED <<connVars, cursorVars, backendVars, returned, em>>
       ELSE LET n == effective_size(size)
                b == fetchmany_backend(n)
                calls == <<b.call>>
            IN
            IF e # NoExc
            THEN /\ ret' = RetB("fetchmany", convert_exception(e), "none", <<>>, 0,
                                calls, <<>>, e)
                 /\ UNCHANGED <<connVars, cursorVars, backendVars, returned, em>>
            ELSE IF converters = None
            THEN \* self._converters does not exist
                 /\ b_pos' = b.pos
                 /\ ret' = Ret("fetchmany", AttributeError, "none", <<>>, 0,
                               calls, <<>>)
                 /\ UNCHANGED <<connVars, cursorVars, b_sets, returned, em>>
            ELSE /\ b_pos' = b.pos
                 /\ rownumber' = IF rownumber # None
                                 THEN Some(rownumber[1] + formatted_len(b.out))
                                 ELSE rownumber
                 /\ returned' = hand_over(real_rows(b.out))
                 /\ ret' = Ret("fetchmany", NoExc, "list", real_rows(b.out),
                               formatted_len(b.out), calls, <<>>)
                 /\ UNCHANGED <<connVars, cursor, cur_conn, description, converters,
                                many_queries, b_sets, em>>

(***************************************************************************)
(* Cursor.fetchall                                                         *)
(***************************************************************************)
FetchAll(e) ==
    /\ cursor # "absent"
    /\ FetchBound
    /\ IF cursor_is_closed(cursor)
       THEN /\ ret' = Closed("fetchall", "Cursor")
            /\ UNCHANGED <<connVars, cursorVars, backendVars, returned, em>>
       ELSE LET b == b_fetchall(b_sets, b_pos) IN
            IF e # NoExc
            THEN /\ ret' = RetB("fetchall", convert_exception(e), "none", <<>>, 0,
                                <<BCall("fetchall", 0)>>, <<>>, e)
                 /\ UNCHANGED <<connVars, cursorVars, backendVars, returned, em>>
            ELSE IF converters = None
            THEN /\ b_pos' = b.pos
                 /\ ret' = Ret("fetchall", AttributeError, "none", <<>>, 0,
                               <<BCall("fetchall", 0)>>, <<>>)
                 /\ UNCHANGED <<connVars, cursorVars, b_sets, returned, em>>
            ELSE /\ b_pos' = b.pos
                 /\ rownumber' = IF rownumber # None
                                 THEN Some(rownumber[1] + formatted_len(b.rows))
                                 ELSE rownumber
                 /\ returned' = hand_over(b.rows)
                 /\ ret' = Ret("fetchall", NoExc, "list", b.rows,
                               formatted_len(b.rows), <<BCall("fetchall", 0)>>, <<>>)
                 /\ UNCHANGED <<connVars, cursor, cur_conn, description, converters,
                                many_queries, b_sets, em>>


(***************************************************************************)
(* Cursor.scroll                                                           *)
(***************************************************************************)
Modes == {"relative", "absolute", "bogus"}
ScrollValues == {-1, 1}

\* where the backend cursor would stand after scroll(value, mode)
b_scroll_target(pos, value, mode) ==
    IF mode = "relative" THEN pos + value
    ELSE IF mode = "absolute" THEN value ELSE pos

\* rownumber after a scroll the backend accepted; the mode check raises
\* ValueError inside the try block, so it leaves translated
scroll_rownumber(rn, value, mode) ==
    IF rn = None THEN [exc |-> NoExc, rownumber |-> rn]
    ELSE IF mode = "relative" THEN [exc |-> NoExc, rownumber |-> Some(rn[1] + value)]
    ELSE IF mode = "absolute" THEN [exc |-> NoExc, rownumber |-> Some(value)]
    ELSE [exc |-> convert_exception(ValueError), rownumber |-> rn]

Scroll(value, mode, e) ==
    /\ cursor # "absent"
    /\ IF cursor_is_closed(cursor)
       THEN /\ ret' = Closed("scroll", "Cursor")
            /\ UNCHANGED <<connVars, cursorVars, backendVars, returned, em>>
       ELSE LET target == b_scroll_target(b_pos, value, mode)
                sr == scroll_rownumber(rownumber, value, mode)
            IN
            \* the backend refuses a position outside the result set
            /\ e = NoExc => target \in 0..b_nrows(b_sets)
            /\ IF e # NoExc
               THEN /\ ret' = RetB("scroll", convert_exception(e), "none", <<>>, 0,
                                   <<BCall("scroll", value)>>, <<>>, e)
                    /\ UNCHANGED <<rownumber, b_pos, returned>>
               ELSE /\ b_pos' = target
                    /\ rownumber' = sr.rownumber
                    /\ returned' = [start |-> target, rows |-> <<>>]
                    /\ ret' = Ret("scroll", sr.exc, "none", <<>>, 0,
                                  <<BCall("scroll", value)>>, <<>>)
            /\ UNCHANGED <<connVars, cursor, cur_conn, description, converters,
                           many_queries, b_sets, em>>

(***************************************************************************)
(* Cursor.setinputsizes, Cursor.setoutputsize                              *)
(***************************************************************************)
\* a method that checks for closed and forwards one call to the backend
Forward(op, e) ==
    /\ cursor # "absent"
    /\ ret' = IF cursor_is_closed(cursor) THEN Closed(op, "Cursor")
              ELSE RetB(op, IF e = NoExc THEN NoExc ELSE convert_exception(e),
                        "none", <<>>, 0, <<BCall(op, 0)>>, <<>>, e)
    /\ UNCHANGED <<connVars, cursorVars, backendVars, returned, em>>

SetInputSizes(e) == Forward("setinputsizes", e)
SetOutputSize(e) == Forward("setoutputsize", e)

(***************************************************************************)
(* The properties rowcount, lastrowid and messages                         *)
(***************************************************************************)
\* a property that checks for closed and reads an attribute of the backend
\* cursor without calling it
ReadAttr(op) ==
    /\ cursor # "absent"
    /\ ret' = IF cursor_is_closed(cursor) THEN Closed(op, "Cursor")
              ELSE Ret(op, NoExc, "attr", <<>>, 0, <<>>, <<>>)
    /\ UNCHANGED <<connVars, cursorVars, backendVars, returned, em>>

RowCount == ReadAttr("rowcount")
LastRowId == ReadAttr("lastrowid")
CursorMessages == ReadAttr("messages")

(***************************************************************************)
(* Cursor.next: fetchone inside a try block that passes StopIteration and  *)
(* converts everything else once more                                      *)
(***************************************************************************)
next_exc(f) ==
    IF f.exc # NoExc THEN convert_exception(f.exc)
    ELSE IF f.value = "None" THEN StopIteration ELSE NoExc

CursorNext(e) ==
    /\ cursor # "absent"
    /\ FetchBound
    /\ IF cursor_is_closed(cursor)
       THEN /\ ret' = Closed("next", "Cursor")
            /\ UNCHANGED <<connVars, cursorVars, backendVars, returned, em>>
       ELSE LET f == fetchone(e) IN
            /\ rownumber' = f.rownumber
            /\ b_pos' = f.b_pos
            /\ returned' = hand_over(f.rows)
            /\ ret' = RetB("next", next_exc(f),
                           IF next_exc(f) = NoExc THEN f.value ELSE "none",
                           f.rows, Len(f.rows), <<BCall("fetchone", 0)>>, <<>>, e)
            /\ UNCHANGED <<connVars, cursor, cur_conn, description, converters,
                           many_queries, b_sets, em>>

(***************************************************************************)
(* _name_check.  A name is a sequence of characters, each standing for its *)
(* class: "a" a letter, "1" a digit, "_", "+", " " and ";".                *)
(***************************************************************************)
RECURSIVE lstrip(_)
lstrip(name) == IF name # <<>> /\ Head(name) = " " THEN lstrip(Tail(name)) ELSE name

RECURSIVE rstrip(_)
rstrip(name) ==
    IF name # <<>> /\ name[Len(name)] = " "
    THEN rstrip(SubSeq(name, 1, Len(name) - 1)) ELSE name

strip(name) == rstrip(lstrip(name))

\* r'^[A-Za-z_][\w+_]*$'
name_first == {"a", "_"}
name_rest == {"a", "1", "_", "+"}

name_matches(name) ==
    /\ name # <<>>
    /\ name[1] \in name_first
    /\ \A i \in 2..Len(name) : name[i] \in name_rest

\* the stripped name, or <<>> with ok = FALSE when ValueError is raised
name_check(name) == [ok |-> name_matches(strip(name)), name |-> strip(name)]

Names == {<<"_", "1">>, <<" ", "a", " ">>, <<"1", "a">>,
          <<"a", "+", "a">>, <<"a", ";">>, <<>>}

(***************************************************************************)
(* Cursor.callproc: CALL name(...) through execute                         *)
(***************************************************************************)
CallProc(name, params, resp) ==
    /\ cursor # "absent"
    /\ IF cursor_is_closed(cursor)
       THEN /\ ret' = Closed("callproc", "Cursor")
            /\ UNCHANGED <<connVars, cursorVars, backendVars, returned, em>>
       ELSE LET nc == name_check(name) IN
            IF ~nc.ok
            THEN /\ ret' = Raise("callproc", ValueError, <<>>, <<>>)
                 /\ UNCHANGED <<connVars, cursorVars, backendVars, returned, em>>
            ELSE LET x == execute(resp) IN
                 /\ description' = x.description
                 /\ rownumber' = x.rownumber
                 /\ converters' = x.converters
                 /\ b_sets' = x.b_sets
                 /\ b_pos' = x.b_pos
                 /\ returned' = NoneReturned
                 /\ em' = NoEm
                 /\ ret' = RetB("callproc", x.exc, "none", <<>>, 0,
                                <<BCall("execute", 0)>>,
                                <<<<Stmt("call", 0, nc.name), params>>>>, resp.exc)
                 /\ UNCHANGED <<connVars, cursor, cur_conn, many_queries>>


(***************************************************************************)
(* Cursor.is_connected and Connection.is_connected                         *)
(***************************************************************************)
\* the driver's liveness probe: True, False, or an error it lets through
ProbeOutcomes == {"True", "False", "raise"}

\* the closed check left out
connection_is_closed_unchecked(c) == FALSE

\* `if self._conn is None` at the head of every Connection method
connection_is_closed(c) == c = "None"

\* the probe asked without looking at the handle first
conn_is_connected_unguarded(probe) ==
    [Ret("is_connected", NoExc, IF probe = "raise" THEN "none" ELSE probe, <<>>, 0,
         <<BCall("is_connected", 0)>>, <<>>) EXCEPT !.ans = probe]

conn_is_connected(probe) ==
    IF connection_is_closed(c_conn)
    THEN Ret("is_connected", NoExc, "False", <<>>, 0, <<>>, <<>>)
    ELSE IF probe = "raise"
    THEN [RetB("is_connected", convert_exception(NativeError(OtherErrno)), "none",
               <<>>, 0, <<BCall("is_connected", 0)>>, <<>>, NativeError(OtherErrno))
          EXCEPT !.ans = probe]
    ELSE [Ret("is_connected", NoExc, probe, <<>>, 0, <<BCall("is_connected", 0)>>, <<>>)
          EXCEPT !.ans = probe]

ConnIsConnected(probe) ==
    /\ ret' = conn_is_connected(probe)
    /\ UNCHANGED <<connVars, cursorVars, backendVars, returned, em>>

CursorIsConnected(probe) ==
    /\ cursor # "absent"
    /\ ret' = IF cur_conn = "None"
              THEN Ret("cursor.is_connected", NoExc, "False", <<>>, 0, <<>>, <<>>)
              ELSE [conn_is_connected(probe) EXCEPT !.op = "cursor.is_connected"]
    /\ UNCHANGED <<connVars, cursorVars, backendVars, returned, em>>

(***************************************************************************)
(* MySQLConnectorDriver.is_connected: conn.ping() inside try / except      *)
(* conn.InterfaceError                                                     *)
(***************************************************************************)
\* what the session's ping does: returns, or raises one of the errors of
\* the mysql.connector package
DriverInterfaceError == [type |-> "mysql.connector.InterfaceError", errno |-> 0, conv |-> 0]
DriverOperationalError == [type |-> "mysql.connector.OperationalError", errno |-> 0, conv |-> 0]
PingOutcomes == {NoExc, DriverInterfaceError, DriverOperationalError}

\* the exceptions the except clause catches
ping_caught == {DriverInterfaceError}

driver_is_connected(ping) ==
    IF ping = NoExc
    THEN RetB("driver.is_connected", NoExc, "True", <<>>, 0, <<BCall("ping", 0)>>, <<>>, ping)
    ELSE IF ping \in ping_caught
    THEN RetB("driver.is_connected", NoExc, "False", <<>>, 0, <<BCall("ping", 0)>>, <<>>, ping)
    ELSE RetB("driver.is_connected", ping, "none", <<>>, 0, <<BCall("ping", 0)>>, <<>>, ping)

DriverIsConnected(ping) ==
    /\ ret' = driver_is_connected(ping)
    /\ UNCHANGED <<connVars, cursorVars, backendVars, returned, em>>

(***************************************************************************)
(* Connection.close, commit, rollback, messages, cursor                    *)
(***************************************************************************)
ConnClosed(op) == Raise(op, InterfaceError(ClosedCode), <<>>, <<>>)

\* the handle kept when the backend's close raised
conn_close_handle_kept(e) == IF e = NoExc THEN "None" ELSE "session"

\* `finally: self._conn = None`
conn_close_handle(e) == "None"

ConnClose(e) ==
    /\ IF connection_is_closed(c_conn)
       THEN /\ ret' = Ret("conn.close", NoExc, "None", <<>>, 0, <<>>, <<>>)
            /\ UNCHANGED c_conn
       ELSE /\ ret' = RetB("conn.close",
                           IF e = NoExc THEN NoExc ELSE convert_exception(e),
                           "none", <<>>, 0, <<BCall("conn.close", 0)>>, <<>>, e)
            /\ c_conn' = conn_close_handle(e)
    /\ UNCHANGED <<configVars, b_session_vars, server, cursorVars, backendVars, returned, em>>

\* Connection.__exit__: self.close()
ConnExit(inflight, e) ==
    /\ IF connection_is_closed(c_conn)
       THEN /\ ret' = [Ret("conn.__exit__", inflight, "none", <<>>, 0, <<>>, <<>>)
                       EXCEPT !.inflight = inflight]
            /\ UNCHANGED c_conn
       ELSE /\ ret' = [RetB("conn.__exit__",
                            exit_exc(inflight,
                                     IF e = NoExc THEN NoExc ELSE convert_exception(e)),
                            "none", <<>>, 0, <<BCall("conn.close", 0)>>, <<>>, e)
                       EXCEPT !.inflight = inflight]
            /\ c_conn' = conn_close_handle(e)
    /\ UNCHANGED <<configVars, b_session_vars, server, cursorVars, backendVars, returned, em>>

ConnForward(op, e) ==
    /\ ret' = IF connection_is_closed(c_conn) THEN ConnClosed(op)
              ELSE RetB(op, IF e = NoExc THEN NoExc ELSE convert_exception(e),
                        "none", <<>>, 0, <<BCall(op, 0)>>, <<>>, e)
    /\ UNCHANGED <<connVars, cursorVars, backendVars, returned, em>>

Commit(e) == ConnForward("commit", e)
Rollback(e) == ConnForward("rollback", e)

ConnMessages ==
    /\ ret' = IF connection_is_closed(c_conn) THEN ConnClosed("conn.messages")
              ELSE Ret("conn.messages", NoExc, "attr", <<>>, 0, <<>>, <<>>)
    /\ UNCHANGED <<connVars, cursorVars, backendVars, returned, em>>

\* Connection.cursor and Cursor.__init__; the model follows one Cursor, so
\* a new one is made when none is followed or the followed one is closed
ConnCursor(e) ==
    IF connection_is_closed(c_conn)
    THEN /\ ret' = ConnClosed("conn.cursor")
         /\ UNCHANGED <<connVars, cursorVars, backendVars, returned, em>>
    ELSE /\ cursor \in {"absent", "None"}
         /\ IF e # NoExc
            THEN /\ ret' = RetB("conn.cursor", convert_exception(e), "none", <<>>, 0,
                                <<BCall("conn.cursor", 0)>>, <<>>, e)
                 /\ UNCHANGED <<connVars, cursorVars, backendVars, returned, em>>
            ELSE /\ cursor' = "handle"
                 /\ cur_conn' = "conn"
                 /\ rownumber' = None
                 /\ description' = None
                 /\ many_queries' = None
                 /\ converters' = None    \* __init__ sets _convetrers, not _converters
                 /\ b_sets' = <<>>
                 /\ b_pos' = 0
                 /\ returned' = NoneReturned
                 /\ em' = NoEm
                 /\ ret' = Ret("conn.cursor", NoExc, "cursor", <<>>, 0,
                               <<BCall("conn.cursor", 0)>>, <<>>)
                 /\ UNCHANGED connVars


(***************************************************************************)
(* Methods that work through internal cursors (`with self._i_cursor()`).   *)
(* Such a method is a list of steps:                                       *)
(*   open   Connection.cursor() for block blk                              *)
(*   exec   cur.execute(stmt, params)                                      *)
(*   fetch  list(cur): the rows are read through Cursor.next               *)
(*   check  a test made without the backend, raising err when it fails     *)
(*   close  Cursor.__exit__ of block blk, i.e. Cursor.close                *)
(* Once a step has raised, only the close steps of the blocks that are     *)
(* open still run.  F is the set of step numbers at which the backend      *)
(* raises e.                                                               *)
(***************************************************************************)
Step(kind, blk, stmt, params, ok, err) ==
    [kind |-> kind, blk |-> blk, stmt |-> stmt, params |-> params,
     ok |-> ok, err |-> err]

OpenStep(blk) == Step("open", blk, NoStmt, 0, TRUE, NoExc)
ExecStep(stmt, params) == Step("exec", 0, stmt, params, TRUE, NoExc)
FetchStep == Step("fetch", 0, NoStmt, 0, TRUE, NoExc)
CheckStep(ok, err) == Step("check", 0, NoStmt, 0, ok, err)
CloseStep(blk) == Step("close", blk, NoStmt, 0, TRUE, NoExc)

RunStart == [exc |-> NoExc, open |-> {}, calls |-> <<>>, sub |-> <<>>]

\* the state of the run after step s, which raises e if fails
run_step(st, s, fails, e) ==
    IF s.kind = "check"
    THEN [st EXCEPT !.exc = IF s.ok THEN NoExc ELSE s.err]
    ELSE IF s.kind = "open"
    THEN [st EXCEPT !.calls = Append(@, BCall("conn.cursor", 0)),
                    !.exc = IF fails THEN convert_exception(e) ELSE NoExc,
                    !.open = IF fails THEN @ ELSE @ \cup {s.blk}]
    ELSE IF s.kind = "exec"
    THEN [st EXCEPT !.calls = Append(@, BCall("execute", 0)),
                    !.sub = Append(@, <<s.stmt, s.params>>),
                    !.exc = IF fails THEN convert_exception(e) ELSE NoExc]
    ELSE IF s.kind = "fetch"
    THEN [st EXCEPT !.calls = Append(@, BCall("fetchone", 0)),
                    !.exc = IF fails THEN convert_exception(convert_exception(e))
                            ELSE NoExc]
    ELSE \* close: an exception of close replaces the one under way
         [st EXCEPT !.calls = Append(@, BCall("close", 0)),
                    !.open = @ \ {s.blk},
                    !.exc = IF fails /\ close_exc(e) # NoExc THEN close_exc(e) ELSE @]

RECURSIVE run(_, _, _, _, _)
run(steps, i, F, e, st) ==
    IF i > Len(steps) THEN st
    ELSE LET s == steps[i]
             runs == st.exc = NoExc \/ (s.kind = "close" /\ s.blk \in st.open)
         IN  run(steps, i + 1, F, e,
                 IF runs THEN run_step(st, s, i \in F, e) ELSE st)

\* the sets of steps at which the backend may raise during one call: none,
\* any one step, or one step and the close of a block on the way out
FailSets(steps) ==
    {{}} \cup {{i} : i \in 1..Len(steps)}
         \cup {{i, j} : i \in {k \in 1..Len(steps) : steps[k].kind # "close"},
                        j \in {k \in 1..Len(steps) : steps[k].kind = "close"}}
StepErrors == {NativeError(OtherErrno), ReferenceError}

(***************************************************************************)
(* Connection.set_global_var / set_session_var with one keyword argument   *)
(***************************************************************************)
VarValues == {"True", "False", "x"}

\* True and False sent as they are given
var_token_as_given(value) == value

\* True and False are sent as the tokens ON and OFF
var_token(value) ==
    IF value = "True" THEN "ON" ELSE IF value = "False" THEN "OFF" ELSE value

set_var_steps(scope, name, value) ==
    <<OpenStep(1),
      CheckStep(name_check(name).ok, ValueError),
      ExecStep(Stmt("set " \o scope, 0, name_check(name).name), var_token(value)),
      CloseStep(1)>>

\* the outcome of a method made of steps
conn_run_ret(op, steps, value, F, e) ==
    IF connection_is_closed(c_conn)
    THEN ConnClosed(op)
    ELSE LET r == run(steps, 1, F, e, RunStart) IN
         RetB(op, r.exc, IF r.exc = NoExc THEN value ELSE "none",
              <<>>, 0, r.calls, r.sub, IF F = {} THEN NoExc ELSE e)

ConnRun(op, steps, value, F, e) ==
    /\ ret' = conn_run_ret(op, steps, value, F, e)
    /\ UNCHANGED <<connVars, cursorVars, backendVars, returned, em>>

SetGlobalVar(name, value, F, e) ==
    ConnRun("set_global_var", set_var_steps("global", name, value), "None", F, e)

SetSessionVar(name, value, F, e) ==
    ConnRun("set_session_var", set_var_steps("session", name, value), "None", F, e)

\* Connection.autocommit: set_session_var(autocommit=bool(value))
autocommit_name == <<"a">>

Autocommit(value, F, e) ==
    ConnRun("autocommit", set_var_steps("session", autocommit_name, value),
            "None", F, e)

(***************************************************************************)
(* Connection.get_global_var / get_session_var                             *)
(***************************************************************************)
\* what SHOW ... LIKE answers: no row, or one row with this text
ShownValues == {"missing", "ON", "off", "true", "FALSE", "x"}

lower(text) ==
    IF text = "ON" THEN "on"
    ELSE IF text = "OFF" THEN "off"
    ELSE IF text \in {"TRUE", "True"} THEN "true"
    ELSE IF text \in {"FALSE", "False"} THEN "false"
    ELSE text

var_result(text) ==
    IF lower(text) \in {"on", "true"} THEN "True"
    ELSE IF lower(text) \in {"off", "false"} THEN "False"
    ELSE "str:" \o text

IndexError == [type |-> "IndexError", errno |-> 0, conv |-> 0]

\* list(cur) reads until the backend has no row left: one fetch per row
\* and one more
get_var_steps(scope, name, shown, blk) ==
    <<CheckStep(name_check(name).ok, ValueError),
      OpenStep(blk),
      ExecStep(Stmt("show " \o scope, 0, name_check(name).name), 0)>>
    \o (IF shown = "missing" THEN <<FetchStep>> ELSE <<FetchStep, FetchStep>>)
    \o <<CheckStep(shown # "missing", IndexError),
          CloseStep(blk)>>

GetGlobalVar(name, shown, F, e) ==
    ConnRun("get_global_var", get_var_steps("global", name, shown, 1),
            var_result(shown), F, e)

GetSessionVar(name, shown, F, e) ==
    ConnRun("get_session_var", get_var_steps("local", name, shown, 1),
            var_result(shown), F, e)


(***************************************************************************)
(* A backend that stores what it is sent: SHOW answers the text a variable *)
(* was last SET to.  given is the value the caller passed for it.          *)
(***************************************************************************)
StoredNames == {<<"a">>, <<"_", "1">>}
Unset == [sent |-> "missing", given |-> "none"]
NoSessionVars == [n \in StoredNames |-> Unset]

\* step 3 of set_var_steps is the execute: the backend stores the value
\* when the statement reached it and it raised nothing
SetSessionVarStored(name, value, F, e) ==
    /\ ret' = conn_run_ret("set_session_var", set_var_steps("session", name, value),
                           "None", F, e)
    /\ b_session_vars' =
           IF /\ ~connection_is_closed(c_conn)
              /\ name_check(name).ok
              /\ name_check(name).name \in StoredNames
              /\ F \cap {1, 3} = {}
           THEN [b_session_vars EXCEPT ![name_check(name).name] =
                    [sent |-> var_token(value), given |-> value]]
           ELSE b_session_vars
    /\ UNCHANGED <<c_conn, configVars, server, cursorVars, backendVars, returned, em>>

\* what SHOW LOCAL VARIABLES LIKE "name" answers
shown_for(name) ==
    IF strip(name) \in StoredNames THEN b_session_vars[strip(name)].sent
    ELSE "missing"

GetSessionVarStored(name, F, e) ==
    ConnRun("get_session_var", get_var_steps("local", name, shown_for(name), 1),
            var_result(shown_for(name)), F, e)


(***************************************************************************)
(* Connection.enable_http_api / disable_http_api                           *)
(***************************************************************************)
http_proxy_port == <<"a", "_", "a", "_", "a">>
http_api == <<"a", "_", "a">>
restart_proxy == Stmt("restart proxy", 0, <<>>)

\* set_global_var called from inside another block
inner_set_global(name, value, blk) ==
    <<OpenStep(blk),
      CheckStep(name_check(name).ok, ValueError),
      ExecStep(Stmt("set global", 0, name_check(name).name), var_token(value)),
      CloseStep(blk)>>

Ports == {"None", "8080"}

\* the proxy restarted before the flag is set
enable_http_api_steps_restart_first(port, shown) ==
    <<OpenStep(1)>>
    \o (IF port # "None" THEN inner_set_global(http_proxy_port, port, 2) ELSE <<>>)
    \o <<ExecStep(restart_proxy, 0)>>
    \o inner_set_global(http_api, "True", 3)
    \o get_var_steps("global", http_proxy_port, shown, 4)
    \o <<CloseStep(1)>>

enable_http_api_steps(port, shown) ==
    <<OpenStep(1)>>
    \o (IF port # "None" THEN inner_set_global(http_proxy_port, port, 2) ELSE <<>>)
    \o inner_set_global(http_api, "True", 3)
    \o <<ExecStep(restart_proxy, 0)>>
    \o get_var_steps("global", http_proxy_port, shown, 4)
    \o <<CloseStep(1)>>

disable_http_api_steps ==
    <<OpenStep(1)>>
    \o inner_set_global(http_api, "False", 3)
    \o <<ExecStep(restart_proxy, 0), CloseStep(1)>>

EnableHttpApi(port, shown, F, e) ==
    ConnRun("enable_http_api", enable_http_api_steps(port, shown),
            var_result(shown), F, e)

DisableHttpApi(F, e) ==
    ConnRun("disable_http_api", disable_http_api_steps, "None", F, e)

(***************************************************************************)
(* Configuration values.  A value is None, a str (a sequence of            *)
(* characters), an int or a bool.                                          *)
(***************************************************************************)
NoneV == [kind |-> "None", val |-> <<>>]
StrV(chars) == [kind |-> "str", val |-> chars]
IntV(n) == [kind |-> "int", val |-> n]
BoolV(b) == [kind |-> "bool", val |-> b]

uppers == <<"A", "B", "D", "E", "F", "H", "I", "L", "N", "O", "P", "R", "S",
            "T", "U", "Y">>
lowers == <<"a", "b", "d", "e", "f", "h", "i", "l", "n", "o", "p", "r", "s",
            "t", "u", "y">>

lower_char(c) ==
    IF \E i \in 1..Len(uppers) : uppers[i] = c
    THEN lowers[CHOOSE i \in 1..Len(uppers) : uppers[i] = c]
    ELSE c

\* str.lower()
str_lower(chars) == [i \in 1..Len(chars) |-> lower_char(chars[i])]

digits == <<"0", "1", "2", "3", "4", "5", "6", "7", "8", "9">>
is_digit(c) == \E i \in 1..10 : digits[i] = c
digit_value(c) == (CHOOSE i \in 1..10 : digits[i] = c) - 1

RECURSIVE digits_value(_)
digits_value(chars) ==
    IF chars = <<>> THEN 0
    ELSE 10 * digits_value(SubSeq(chars, 1, Len(chars) - 1))
         + digit_value(chars[Len(chars)])

\* int(val): an int is kept, a bool is 1 or 0, a str of decimal digits is
\* read as a number; anything else raises
int_cast(v) ==
    IF v.kind = "int" THEN [ok |-> TRUE, n |-> v.val]
    ELSE IF v.kind = "bool" THEN [ok |-> TRUE, n |-> IF v.val THEN 1 ELSE 0]
    ELSE IF v.kind = "str" /\ v.val # <<>> /\ \A i \in 1..Len(v.val) : is_digit(v.val[i])
    THEN [ok |-> TRUE, n |-> digits_value(v.val)]
    ELSE [ok |-> FALSE, n |-> 0]

RECURSIVE int_text(_)
int_text(n) ==
    IF n < 10 THEN <<digits[n + 1]>>
    ELSE int_text(n \div 10) \o <<digits[(n % 10) + 1]>>

\* str(val)
str_cast(v) ==
    IF v.kind = "str" THEN v
    ELSE IF v.kind = "int" THEN StrV(int_text(v.val))
    ELSE IF v.kind = "bool"
    THEN StrV(IF v.val THEN <<"T", "r", "u", "e">> ELSE <<"F", "a", "l", "s", "e">>)
    ELSE StrV(<<"N", "o", "n", "e">>)

(***************************************************************************)
(* cast_bool_param                                                         *)
(***************************************************************************)
TrueWords == {<<"o", "n">>, <<"t">>, <<"t", "r", "u", "e">>, <<"y">>,
              <<"y", "e", "s">>, <<"e", "n", "a", "b", "l", "e", "d">>,
              <<"e", "n", "a", "b", "l", "e">>}
FalseWords == {<<"o", "f", "f">>, <<"f">>, <<"f", "a", "l", "s", "e">>, <<"n">>,
               <<"n", "o">>, <<"d", "i", "s", "a", "b", "l", "e", "d">>,
               <<"d", "i", "s", "a", "b", "l", "e">>}

\* line 73: the words of the second list give True as well
false_word_result == TRUE

UnrecognizedBool == "Unrecognized value for bool"

\* a returned bool
Returns(b) == [ok |-> TRUE, err |-> "none", value |-> b]

\* the result, or ok = FALSE for ValueError('Unrecognized value for bool')
cast_bool_param(v) ==
    IF v.kind = "None" THEN Returns(FALSE)
    ELSE IF v.kind = "bool" THEN Returns(v.val)
    ELSE IF int_cast(v).ok /\ int_cast(v).n = 1 THEN Returns(TRUE)
    ELSE IF int_cast(v).ok /\ int_cast(v).n = 0 THEN Returns(FALSE)
    ELSE IF v.kind = "str" /\ str_lower(v.val) \in TrueWords
    THEN Returns(TRUE)
    ELSE IF v.kind = "str" /\ str_lower(v.val) \in FalseWords
    THEN Returns(false_word_result)
    ELSE [ok |-> FALSE, err |-> UnrecognizedBool, value |-> FALSE]

(***************************************************************************)
(* Connection URLs.  A URL is a str; urlparse (standard library) is the    *)
(* inverse of writing the parts of a URL out as text.                      *)
(***************************************************************************)
s_http == <<"h", "t", "t", "p">>
s_https == <<"h", "t", "t", "p", "s">>
s_HTTP == <<"H", "T", "T", "P">>
s_mysql == <<"m", "y", "s", "q", "l">>
s_singlestore == <<"s", "i", "n", "g", "l", "e", "s", "t", "o", "r", "e">>

\* a query string: (key, value) pairs in the order written
k_foo == <<"f", "o", "o">>
k_charset == <<"c", "h", "a", "r", "s", "e", "t">>
k_Charset == <<"C", "h", "a", "r", "s", "e", "t">>
k_local_infile == <<"l", "o", "c", "a", "l", "_", "i", "n", "f", "i", "l", "e">>
k_driver == <<"d", "r", "i", "v", "e", "r">>

Queries ==
    {<<>>,
     <<<<k_foo, <<"1">>>>>>,
     <<<<k_foo, <<>>>>>>,
     <<<<k_local_infile, <<"O", "f", "f">>>>>>,
     <<<<k_Charset, <<"a">>>>, <<k_Charset, <<"b">>>>>>,
     <<<<k_driver, s_https>>>>}

\* the parts a URL is written from; None is <<>> and a part p is <<p>>
UrlParts ==
    {p \in [scheme : {None, Some(s_http), Some(s_HTTP), Some(s_singlestore)},
            username : {None, Some(<<>>), Some(<<"u">>)},
            password : {None, Some(<<>>), Some(<<"p">>)},
            hostname : {<<"h">>},
            port : {None, Some(0), Some(1234)},
            path : {<<>>, <<<<"d">>>>, <<<<" ", "d">>, <<"e">>>>},
            query : Queries] :
        /\ p.username = None => p.password = None
        /\ p.query # <<>> =>
              /\ p.port = None /\ p.username = None /\ p.path = <<>>
              /\ p.scheme \in {None, Some(s_http)}
        /\ Len(p.path) > 1 => (p.scheme = None /\ p.password = None)
        /\ p.port = Some(0) => p.username = None
        /\ p.scheme = Some(s_singlestore) => (p.password = None /\ p.port = None)
        /\ p.scheme = Some(s_HTTP) => (p.username = None /\ p.port = None)}

RECURSIVE join_path(_)
join_path(segments) ==
    IF segments = <<>> THEN <<>>
    ELSE <<"/">> \o Head(segments) \o join_path(Tail(segments))

RECURSIVE join_query(_)
join_query(pairs) ==
    IF pairs = <<>> THEN <<>>
    ELSE pairs[1][1] \o <<"=">> \o pairs[1][2]
         \o (IF Len(pairs) > 1 THEN <<"&">> ELSE <<>>) \o join_query(Tail(pairs))

\* user[:password]@host[:port]
netloc(p) ==
    (IF p.username = None THEN <<>>
     ELSE p.username[1]
          \o (IF p.password = None THEN <<>> ELSE <<":">> \o p.password[1])
          \o <<"@">>)
    \o p.hostname
    \o (IF p.port = None THEN <<>> ELSE <<":">> \o int_text(p.port[1]))

\* the text after the scheme and the two slashes
url_rest(p) ==
    netloc(p) \o join_path(p.path)
    \o (IF p.query = <<>> THEN <<>> ELSE <<"?">> \o join_query(p.query))

\* the URL as a caller writes it: the two slashes only with a scheme
url_text(p) ==
    IF p.scheme = None THEN url_rest(p)
    ELSE p.scheme[1] \o <<":", "/", "/">> \o url_rest(p)

\* the text urlparse is handed for each set of parts
url_index == [p \in UrlParts |->
                 (IF p.scheme = None THEN <<>> ELSE p.scheme[1] \o <<":">>)
                 \o <<"/", "/">> \o url_rest(p)]

\* urlparse(url, scheme='singlestore'): the parts the text was written from,
\* the scheme in lower case and singlestore when none is written
urlparse(url) ==
    LET p == CHOOSE q \in UrlParts : url_index[q] = url
    IN  [p EXCEPT !.scheme = IF p.scheme = None THEN s_singlestore
                             ELSE str_lower(p.scheme[1])]

\* `sub in text` for a str
contains(text, sub) ==
    \E i \in 1..(Len(text) - Len(sub) + 1) : SubSeq(text, i, i + Len(sub) - 1) = sub

(***************************************************************************)
(* Dictionaries are functions on their keys.  The keys of the parameter    *)
(* dictionaries are written as strings; a key read from a query string is  *)
(* a str and is looked up by its text.                                     *)
(***************************************************************************)
dict_update(d, e) ==
    [k \in DOMAIN d \cup DOMAIN e |-> IF k \in DOMAIN e THEN e[k] ELSE d[k]]

\* {k: v for k, v in d.items() if v is not None}
dict_not_none(d) == [k \in {j \in DOMAIN d : d[j].kind # "None"} |-> d[k]]

dict_pop(d, key) == [k \in DOMAIN d \ {key} |-> d[k]]

\* bool(v)
truthy(v) ==
    IF v.kind = "None" THEN FALSE
    ELSE IF v.kind = "str" THEN v.val # <<>>
    ELSE IF v.kind = "int" THEN v.val # 0
    ELSE v.val

\* v or None
or_none(v) == IF truthy(v) THEN v ELSE NoneV

key_of(chars) ==
    IF chars = k_foo THEN "foo"
    ELSE IF chars = k_charset THEN "charset"
    ELSE IF chars = k_local_infile THEN "local_infile"
    ELSE IF chars = k_driver THEN "driver"
    ELSE "other"

\* the arguments of connect(), in order, and their declared types
ParamNames == <<"host", "user", "password", "port", "database", "driver",
                "pure_python", "local_infile", "odbc_driver", "charset">>
KnownNames == {ParamNames[i] : i \in 1..Len(ParamNames)}

\* _get_param_types(connect)
param_types ==
    [name \in KnownNames |->
        IF name = "port" THEN "int"
        ELSE IF name \in {"pure_python", "local_infile"} THEN "bool"
        ELSE "str"]

\* the order in which the items of a parameter dictionary are visited
KeyOrder == ParamNames \o <<"foo", "other">>

(***************************************************************************)
(* _parse_url                                                              *)
(***************************************************************************)
\* {k.lower(): v[-1] for k, v in parse_qs(query).items()}; parse_qs leaves
\* out the pairs whose value is blank
query_params(pairs) ==
    LET kept == {i \in 1..Len(pairs) : pairs[i][2] # <<>>}
        key(i) == key_of(str_lower(pairs[i][1]))
    IN  [k \in {key(i) : i \in kept} |->
            StrV(pairs[CHOOSE i \in kept :
                          /\ key(i) = k
                          /\ \A j \in kept : key(j) = k => j <= i][2])]

\* lines 209-230: the parameters taken from the parsed parts
url_params(parts) ==
    LET url_db == IF parts.path = <<>> THEN <<>> ELSE strip(parts.path[1])
        user == IF parts.username = None THEN NoneV
                ELSE or_none(StrV(parts.username[1]))
        basic == [host |-> or_none(StrV(parts.hostname)),
                  port |-> IF parts.port = None THEN NoneV
                           ELSE or_none(IntV(parts.port[1])),
                  database |-> or_none(StrV(url_db)),
                  user |-> user]
        with_password ==
            IF truthy(user) /\ parts.password # None
            THEN dict_update(basic, [password |-> StrV(parts.password[1])])
            ELSE basic
        with_driver ==
            IF parts.scheme # s_singlestore
            THEN dict_update(with_password, [driver |-> StrV(str_lower(parts.scheme))])
            ELSE with_password
    IN  dict_not_none(dict_update(with_driver, query_params(parts.query)))

parse_url(url0) ==
    url_params(urlparse(IF contains(url0, <<"/", "/">>) THEN url0
                        ELSE <<"/", "/">> \o url0))

(***************************************************************************)
(* _cast_params.  A failed call is ok = FALSE with the message in err.     *)
(***************************************************************************)
UnrecognizedParameter == "Unrecognized connection parameter"
InvalidLiteral == "invalid literal for int()"

cast_item(key, val) ==
    IF key \notin KnownNames
    THEN [ok |-> FALSE, err |-> UnrecognizedParameter, value |-> NoneV]
    ELSE IF param_types[key] = "bool"
    THEN [ok |-> cast_bool_param(val).ok, err |-> UnrecognizedBool,
          value |-> BoolV(cast_bool_param(val).value)]
    ELSE IF param_types[key] = "int"
    THEN [ok |-> int_cast(val).ok, err |-> InvalidLiteral,
          value |-> IntV(int_cast(val).n)]
    ELSE [ok |-> TRUE, err |-> "none", value |-> str_cast(val)]

cast_params(params) ==
    LET live == DOMAIN dict_not_none(params)
        bad == {i \in 1..Len(KeyOrder) :
                   KeyOrder[i] \in live /\ ~cast_item(KeyOrder[i], params[KeyOrder[i]]).ok}
        first == CHOOSE i \in bad : \A j \in bad : i <= j
    IN  IF bad = {}
        THEN [ok |-> TRUE, err |-> "none",
              out |-> [k \in live |-> cast_item(k, params[k]).value]]
        ELSE [ok |-> FALSE,
              err |-> cast_item(KeyOrder[first], params[KeyOrder[first]]).err,
              out |-> [k \in {} |-> NoneV]]

(***************************************************************************)
(* build_params                                                            *)
(***************************************************************************)
EmptyDict == [k \in {} |-> NoneV]

\* get_option(name)
get_option(name) == options[name]

\* int(get_option(name) or default)
option_port(name, default) ==
    IF truthy(get_option(name)) THEN int_cast(get_option(name)).n ELSE default

\* ':' in host or '/' in host or '@' in host or '?' in host
url_shaped(host) ==
    \E i \in 1..Len(host) : host[i] \in {":", "/", "@", "?"}

\* https treated like http
default_port_https_as_http(driver) ==
    IF driver \in {StrV(s_http), StrV(s_https)} THEN option_port("http_port", 80)
    ELSE option_port("port", 3306)

\* the port put in when none was resolved
default_port(driver) ==
    IF driver = StrV(s_http) THEN option_port("http_port", 80)
    ELSE IF driver = StrV(s_https) THEN option_port("http_port", 443)
    ELSE option_port("port", 3306)

\* the password is taken out when there is no user and it is empty
drop_password(out) ==
    IF "user" \notin DOMAIN out
       /\ (IF "password" \in DOMAIN out THEN ~truthy(out["password"]) ELSE TRUE)
    THEN dict_pop(out, "password")
    ELSE out

\* lines 96-98: every parameter of connect(), from the keyword or the option
named_params(kw) ==
    [name \in KnownNames |->
        IF name \in DOMAIN kw THEN kw[name] ELSE get_option(name)]

\* lines 103-105: the URL's parameters, with the option's driver when the
\* URL names none
url_defaults(urlp) ==
    IF "driver" \notin DOMAIN urlp
    THEN dict_update(urlp, [driver |-> get_option("driver")])
    ELSE urlp

\* lines 101-106: a URL-shaped host overrides the named parameters
merge_url(out) ==
    IF truthy(out["host"]) /\ url_shaped(out["host"].val)
    THEN dict_update(out, url_defaults(parse_url(out["host"].val)))
    ELSE out

\* lines 110-117: the default port where none is resolved
with_port(out) ==
    IF (IF "port" \in DOMAIN out THEN ~truthy(out["port"]) ELSE TRUE)
    THEN dict_update(out, [port |-> IntV(default_port(out["driver"]))])
    ELSE out

\* lines 108-123 on the outcome c of _cast_params
cast_outcome(c) ==
    IF ~c.ok THEN [ok |-> FALSE, err |-> c.err, out |-> EmptyDict]
    ELSE IF "driver" \notin DOMAIN c.out
            /\ (IF "port" \in DOMAIN c.out THEN ~truthy(c.out["port"]) ELSE TRUE)
    THEN [ok |-> FALSE, err |-> "KeyError", out |-> EmptyDict]
    ELSE [ok |-> TRUE, err |-> "none", out |-> drop_password(with_port(c.out))]

build_params(kw0) ==
    cast_outcome(cast_params(merge_url(named_params(dict_not_none(kw0)))))

(***************************************************************************)
(* notebook/_uvicorn_util.py and notebook/_apps.py: run_cloud_function     *)
(* builds an AwaitableUvicornServer, starts serve() as a task of the event *)
(* loop and awaits wait_for_startup().  serve() is uvicorn's: it does its  *)
(* own preparation, awaits startup(), and then runs the main loop.  Each   *)
(* action is what one task does between two awaits.                        *)
(***************************************************************************)
\* the tasks that await wait_for_startup(): run_cloud_function itself and
\* one more task of the same event loop
Waiters == {"run_cloud_function", "other"}

NoFuture == [state |-> "none", exc |-> "none", resolved |-> 0]

\* what loop.create_future() returns; resolved counts the times the
\* future's state was set
PendingFuture == [state |-> "pending", exc |-> "none", resolved |-> 0]

NotWaiting == [at |-> "none", exc |-> "none"]

\* before run_cloud_function is called there is no server
NoServer ==
    [port |-> "None", root_path |-> "None", killed |-> FALSE,
     serve |-> "none", serve_exc |-> "none", startup |-> "not_called",
     future |-> NoFuture, waiter |-> [w \in Waiters |-> NotWaiting]]

\* Future.set_result and Future.set_exception refuse a future that is done
set_result(f) ==
    IF f.state = "pending"
    THEN [raises |-> "none",
          future |-> [state |-> "result", exc |-> "none",
                      resolved |-> f.resolved + 1]]
    ELSE [raises |-> "InvalidStateError", future |-> f]

set_exception(f, error) ==
    IF f.state = "pending"
    THEN [raises |-> "none",
          future |-> [state |-> "exception", exc |-> error,
                      resolved |-> f.resolved + 1]]
    ELSE [raises |-> "InvalidStateError", future |-> f]

\* CancelledError and SystemExit derive from BaseException only
is_Exception(error) == error \in {"OSError", "RuntimeError", "InvalidStateError"}

\* except Exception as error
caught_by_startup(error) == is_Exception(error)

\* the try block of startup() once super().startup() has ended with outcome
startup_try(f, outcome) ==
    IF outcome = "none" THEN set_result(f)
    ELSE [raises |-> outcome, future |-> f]

\* the except clause on what the try block raised
startup_except(t, s) ==
    [raises |-> IF s.raises # "none" THEN s.raises ELSE t.raises,
     future |-> s.future]

startup_handled(t) ==
    IF caught_by_startup(t.raises)
    THEN startup_except(t, set_exception(t.future, t.raises))
    ELSE t

\* AwaitableUvicornServer.startup: the future afterwards and what it raises
startup(f, outcome) == startup_handled(startup_try(f, outcome))

\* await self._startup_future on a future that is done
awaited(f) ==
    IF f.state = "result" THEN [at |-> "returned", exc |-> "none"]
    ELSE [at |-> "raised", exc |-> f.exc]

\* wait_for_startup() called: suspended while the future is pending
wait_for_startup(f) ==
    IF f.state = "pending" THEN [at |-> "waiting", exc |-> "none"]
    ELSE awaited(f)

ListenPorts == {"None", "8000", "8080"}
AppUrls == {"None", "/app"}

serverVars == <<c_conn, configVars, b_session_vars, cursorVars, backendVars,
                returned, em, ret>>

RunCloudFunction(port, app_url, kill_existing_server) ==
    /\ server = NoServer
    /\ server' =
           IF port = "None" \/ app_url = "None"
           THEN [server EXCEPT !.waiter["run_cloud_function"] =
                                   [at |-> "raised", exc |-> "RuntimeError"]]
           ELSE [server EXCEPT
                    !.port = port, !.root_path = app_url,
                    !.killed = kill_existing_server,
                    !.future = PendingFuture,
                    !.serve = "created",
                    !.waiter["run_cloud_function"] =
                        wait_for_startup(PendingFuture)]
    /\ UNCHANGED serverVars

\* what serve() may end with before it reaches startup(), and what
\* super().startup() may end with; "none" is a normal return
ServeOutcomes == {"none", "OSError", "CancelledError"}

\* serve() up to its call of startup()
ServeBeforeStartup(outcome) ==
    /\ server.serve = "created"
    /\ server' =
           IF outcome = "none"
           THEN [server EXCEPT !.serve = "startup", !.startup = "running"]
           ELSE [server EXCEPT !.serve = "ended", !.serve_exc = outcome]
    /\ UNCHANGED serverVars

\* startup() resumed when super().startup() ends; serve() goes on to the
\* main loop, or ends with what startup() raised
Startup(outcome) ==
    /\ server.serve = "startup"
    /\ server' =
           [server EXCEPT
               !.future = startup(server.future, outcome).future,
               !.startup = IF startup(server.future, outcome).raises = "none"
                           THEN "returned" ELSE "raised",
               !.serve = IF startup(server.future, outcome).raises = "none"
                         THEN "main_loop" ELSE "ended",
               !.serve_exc = startup(server.future, outcome).raises]
    /\ UNCHANGED serverVars

\* serve() leaves the main loop and shuts down
ServeEnds(outcome) ==
    /\ server.serve = "main_loop"
    /\ server' = [server EXCEPT !.serve = "ended", !.serve_exc = outcome]
    /\ UNCHANGED serverVars

\* another task calls wait_for_startup() on the server
WaitForStartup(w) ==
    /\ server.serve # "none"
    /\ server.waiter[w].at = "none"
    /\ server' = [server EXCEPT !.waiter[w] = wait_for_startup(server.future)]
    /\ UNCHANGED serverVars

\* the event loop resumes a task suspended on the future once it is done
WaitForStartupResumes(w) ==
    /\ server.waiter[w].at = "waiting"
    /\ server.future.state # "pending"
    /\ server' = [server EXCEPT !.waiter[w] = awaited(server.future)]
    /\ UNCHANGED serverVars

(***************************************************************************)
(* The state after connect() has returned a Connection                     *)
(***************************************************************************)
\* the options as the process starts: a driver name, and no port
DefaultOptions ==
    [name \in KnownNames \cup {"http_port"} |->
        IF name = "driver" THEN StrV(s_mysql) ELSE NoneV]

Init ==
    /\ c_conn = "session"
    /\ cursor = "absent"
    /\ cur_conn = "None"
    /\ rownumber = None
    /\ description = None
    /\ converters = None
    /\ many_queries = None
    /\ b_sets = <<>>
    /\ b_pos = 0
    /\ returned = NoneReturned
    /\ em = NoEm
    /\ ret = Ret("connect", NoExc, "connection", <<>>, 0, <<BCall("connect", 0)>>, <<>>)
    /\ kwargs = [host |-> StrV(<<"h">>)]
    /\ options = DefaultOptions
    /\ connection_params = build_params(build_params(kwargs).out).out
    /\ b_session_vars = NoSessionVars
    /\ server = NoServer

ParamIds == {0, 1}

\* one Cursor on one Connection: statements, result sets and fetches
Next ==
    \/ \E e \in FetchOutcomes : ConnCursor(e)
    \/ \E e \in FetchOutcomes : ConnClose(e)
    \/ \E e \in FetchOutcomes : Commit(e)
    \/ \E e \in FetchOutcomes : Rollback(e)
    \/ \E probe \in ProbeOutcomes : ConnIsConnected(probe)
    \/ \E ping \in PingOutcomes : DriverIsConnected(ping)
    \/ \E params \in ParamIds, resp \in ExecOutcomes :
           Execute(Sql(1), params, resp)
    \/ \E resp \in FewOutcomes : ExecuteMany(Sql(1), <<>>, resp)
    \/ \E e \in NextsetOutcomes : NextSet(Answers(<<NoResult>>), e)
    \/ \E e \in FetchOutcomes : FetchOne(e)
    \/ \E size \in Sizes, e \in FetchOutcomes : FetchMany(size, e)
    \/ \E e \in FetchOutcomes : FetchAll(e)
    \/ \E e \in FetchOutcomes : CursorNext(e)
    \/ \E value \in ScrollValues, mode \in Modes, e \in FetchOutcomes :
           Scroll(value, mode, e)
    \/ \E e \in FetchOutcomes : SetInputSizes(e)
    \/ \E e \in FetchOutcomes : SetOutputSize(e)
    \/ RowCount
    \/ LastRowId
    \/ CursorMessages
    \/ \E name \in {<<"a", "+", "a">>, <<"a", ";">>}, resp \in FewOutcomes :
           CallProc(name, 1, resp)
    \/ \E e \in CloseOutcomes : CursorClose(e)
    \/ \E probe \in ProbeOutcomes : CursorIsConnected(probe)
    \/ \E inflight \in BodyOutcomes, e \in CloseOutcomes : CursorExit(inflight, e)
    \/ \E inflight \in BodyOutcomes, e \in FetchOutcomes : ConnExit(inflight, e)

Spec == Init /\ [][Next]_vars

\* one Cursor on one Connection: executemany and the queue it leaves
NextMany ==
    \/ ConnCursor(NoExc)
    \/ \E oper \in Sqls, resp \in FewOutcomes : Execute(oper, 0, resp)
    \/ \E oper \in Sqls, param_seq \in ParamSeqs, resp \in FewOutcomes :
           ExecuteMany(oper, param_seq, resp)
    \/ \E resp \in FewOutcomes, e \in NextsetOutcomes : NextSet(resp, e)
    \/ FetchOne(NoExc)
    \/ \E e \in CloseOutcomes : CursorClose(e)

SpecMany == Init /\ [][NextMany]_vars

\* the Connection's own methods
NextConn ==
    \/ \E e \in FetchOutcomes : ConnClose(e)
    \/ \E e \in FetchOutcomes : Commit(e)
    \/ \E e \in FetchOutcomes : Rollback(e)
    \/ ConnMessages
    \/ \E e \in FetchOutcomes : ConnCursor(e)
    \/ \E probe \in ProbeOutcomes : ConnIsConnected(probe)
    \/ \E name \in Names, value \in VarValues, e \in StepErrors :
         \E F \in FailSets(set_var_steps("global", name, value)) :
           SetGlobalVar(name, value, F, e)
    \/ \E name \in Names, value \in VarValues, e \in StepErrors :
         \E F \in FailSets(set_var_steps("session", name, value)) :
           SetSessionVar(name, value, F, e)
    \/ \E value \in {"True", "False"}, e \in StepErrors :
         \E F \in FailSets(set_var_steps("session", autocommit_name, value)) :
           Autocommit(value, F, e)
    \/ \E name \in Names, shown \in ShownValues, e \in StepErrors :
         \E F \in FailSets(get_var_steps("global", name, shown, 1)) :
           GetGlobalVar(name, shown, F, e)
    \/ \E name \in Names, shown \in ShownValues, e \in StepErrors :
         \E F \in FailSets(get_var_steps("local", name, shown, 1)) :
           GetSessionVar(name, shown, F, e)
    \/ \E port \in Ports, shown \in {"missing", "x"}, e \in StepErrors :
         \E F \in FailSets(enable_http_api_steps(port, shown)) :
           EnableHttpApi(port, shown, F, e)
    \/ \E e \in StepErrors : \E F \in FailSets(disable_http_api_steps) :
           DisableHttpApi(F, e)

SpecConn == Init /\ [][NextConn]_vars

\* session variables set and read back on a backend that stores them
StoredNameInputs == {<<"a">>, <<" ", "a", " ">>, <<"_", "1">>, <<"a", ";">>}

NextStored ==
    \/ \E name \in StoredNameInputs, value \in VarValues, e \in StepErrors :
         \E F \in FailSets(set_var_steps("session", name, value)) :
           SetSessionVarStored(name, value, F, e)
    \/ \E name \in StoredNameInputs, e \in StepErrors :
         \E F \in FailSets(get_var_steps("local", name, shown_for(name), 1)) :
           GetSessionVarStored(name, F, e)
    \/ ConnClose(NoExc)

SpecStored == Init /\ [][NextStored]_vars

\* run_cloud_function, the serve() task and the tasks awaiting the startup
NextServe ==
    \/ \E port \in ListenPorts, app_url \in AppUrls, kill \in BOOLEAN :
         RunCloudFunction(port, app_url, kill)
    \/ \E outcome \in ServeOutcomes : ServeBeforeStartup(outcome)
    \/ \E outcome \in ServeOutcomes : Startup(outcome)
    \/ \E outcome \in ServeOutcomes \ {"CancelledError"} : ServeEnds(outcome)
    \/ WaitForStartup("other")
    \/ \E w \in Waiters : WaitForStartupResumes(w)

SpecServe == Init /\ [][NextServe]_vars

\* the event loop runs every callback that is ready: a task suspended on a
\* future that is done is resumed
SpecServeFair ==
    SpecServe /\ \A w \in Waiters : WF_vars(WaitForStartupResumes(w))



(***************************************************************************)
(* The configuration functions on their own: build_params and              *)
(* cast_bool_param applied to the arguments drawn in InitParams, and       *)
(* Connection.__init__ making the Connection from them.                    *)
(***************************************************************************)
upper_char(c) ==
    IF \E i \in 1..Len(lowers) : lowers[i] = c
    THEN uppers[CHOOSE i \in 1..Len(lowers) : lowers[i] = c]
    ELSE c

\* a word in every mix of upper and lower case
RECURSIVE CaseVariants(_)
CaseVariants(word) ==
    IF word = <<>> THEN {<<>>}
    ELSE {<<c>> \o rest : c \in {word[1], upper_char(word[1])},
                          rest \in CaseVariants(Tail(word))}

BoolWords == UNION {CaseVariants(w) : w \in TrueWords \cup FalseWords}

BoolInputs ==
    {StrV(w) : w \in BoolWords}
    \cup {StrV(<<>>), StrV(<<"1">>), StrV(<<"0">>), StrV(<<"2">>),
          StrV(<<"o">>), StrV(<<"o", "n", "e">>), StrV(<<"t", "r", "u">>)}
    \cup {IntV(0), IntV(1), IntV(2), BoolV(TRUE), BoolV(FALSE)}

\* the text of each URL
url_texts == [p \in UrlParts |-> url_text(p)]

HostTexts == {url_texts[p] : p \in UrlParts}

\* keyword arguments given besides host
Explicit ==
    {EmptyDict,
     [driver |-> StrV(s_http)],
     [driver |-> StrV(s_mysql)],
     [driver |-> StrV(s_https), user |-> NoneV],
     [password |-> StrV(<<"p">>)],
     [password |-> StrV(<<>>)],
     [user |-> StrV(<<"u">>), password |-> StrV(<<"p">>)],
     [port |-> IntV(0)],
     [port |-> StrV(<<"8", "0">>)],
     [port |-> StrV(<<"a">>)],
     [foo |-> IntV(1)]}

KwargsInputs ==
    Explicit
    \cup {dict_update([host |-> StrV(t)], x) : t \in HostTexts, x \in Explicit}
    \cup {[host |-> StrV(<<"h">>), local_infile |-> v] : v \in BoolInputs}

\* options that supply ports as well
PortOptions ==
    [name \in KnownNames \cup {"http_port"} |->
        IF name = "driver" THEN StrV(s_mysql)
        ELSE IF name = "port" THEN IntV(3307)
        ELSE IF name = "http_port" THEN StrV(<<"8", "0", "8", "0">>)
        ELSE NoneV]

OptionInputs == {DefaultOptions, PortOptions}

InitParams ==
    /\ c_conn = "None"
    /\ cursor = "absent"
    /\ cur_conn = "None"
    /\ rownumber = None
    /\ description = None
    /\ converters = None
    /\ many_queries = None
    /\ b_sets = <<>>
    /\ b_pos = 0
    /\ returned = NoneReturned
    /\ em = NoEm
    /\ ret = Ret("import", NoExc, "none", <<>>, 0, <<>>, <<>>)
    /\ kwargs \in KwargsInputs
    /\ options \in IF "local_infile" \in DOMAIN kwargs
                   THEN {DefaultOptions} ELSE OptionInputs
    /\ connection_params = EmptyDict
    /\ b_session_vars = NoSessionVars
    /\ server = NoServer

\* the outcome of a configuration function: its value, or ValueError with
\* the message as value
ParamsRet(op, r, value) ==
    IF r.ok THEN Ret(op, NoExc, value, <<>>, 0, <<>>, <<>>)
    ELSE Ret(op, ValueError, r.err, <<>>, 0, <<>>, <<>>)

BuildParams ==
    /\ ret' = ParamsRet("build_params", build_params(kwargs), build_params(kwargs).out)
    /\ UNCHANGED <<connVars, cursorVars, backendVars, returned, em>>

CastBoolParam ==
    /\ "local_infile" \in DOMAIN kwargs
    /\ ret' = ParamsRet("cast_bool_param", cast_bool_param(kwargs["local_infile"]),
                        BoolV(cast_bool_param(kwargs["local_infile"]).value))
    /\ UNCHANGED <<connVars, cursorVars, backendVars, returned, em>>

\* Connection.__init__: build_params twice, then the driver's connect()
Connect(e) ==
    /\ c_conn = "None"
    /\ connection_params = EmptyDict
    /\ LET first == build_params(kwargs)
           second == build_params(first.out)
       IN  IF ~first.ok
           THEN /\ ret' = ParamsRet("connect", first, "none")
                /\ UNCHANGED <<c_conn, connection_params>>
           ELSE IF ~second.ok
           THEN /\ ret' = ParamsRet("connect", second, "none")
                /\ UNCHANGED <<c_conn, connection_params>>
           ELSE IF e # NoExc
           THEN /\ ret' = RetB("connect", convert_exception(e), "none", <<>>, 0,
                               <<BCall("connect", 0)>>, <<>>, e)
                /\ UNCHANGED <<c_conn, connection_params>>
           ELSE /\ ret' = Ret("connect", NoExc, "connection", <<>>, 0,
                              <<BCall("connect", 0)>>, <<>>)
                /\ c_conn' = "session"
                /\ connection_params' = second.out
    /\ UNCHANGED <<kwargs, options, b_session_vars, server, cursorVars, backendVars,
                   returned, em>>

NextParams ==
    \/ BuildParams
    \/ CastBoolParam
    \/ \E e \in {NoExc, NativeError(OtherErrno)} : Connect(e)

SpecParams == InitParams /\ [][NextParams]_vars


(***************************************************************************)
(* Properties                                                              *)
(***************************************************************************)
ClosedError == InterfaceError(ClosedCode)

\* the Cursor methods and properties that check for a closed cursor
CursorOps == {"execute", "executemany", "callproc", "fetchone", "fetchmany",
              "fetchall", "nextset", "scroll", "setinputsizes", "setoutputsize",
              "next", "close", "rowcount", "lastrowid", "messages"}

\* C1: on a closed cursor every cursor operation fails with
\* InterfaceError(2048) and nothing else, makes no backend call and submits
\* nothing; the cursor stays closed (the only step that follows a closed
\* cursor with an open one is Connection.cursor() making a new Cursor).
C1_ClosedCursorFails ==
    [][cursor = "None" =>
          /\ ret'.op \in CursorOps =>
                /\ ret'.exc = ClosedError
                /\ ret'.calls = <<>>
                /\ ret'.sub = <<>>
                /\ UNCHANGED <<cursorVars, backendVars>>
          /\ cursor' # "None" => ret'.op = "conn.cursor"]_vars

C1_Witness ==
    /\ cursor = "None"
    /\ ret.op = "callproc"
    /\ ret.exc = ClosedError

\* the column list execute must show for the backend's column list
shown_columns(bdesc, desc) ==
    /\ Len(desc) = Len(bdesc)
    /\ \A i \in 1..Len(bdesc) :
          /\ desc[i].type_code = bdesc[i].type_code
          /\ desc[i].flags = bdesc[i].flags
          /\ desc[i].null_ok = (bdesc[i].null_ok # 0)

\* C2: after a successful execute rownumber is 0 and description is the
\* column list of the statement just executed, or None when it has none,
\* whatever description was before.
C2_ExecuteResets ==
    (ret.op = "execute" /\ ret.exc = NoExc) =>
        /\ rownumber = Some(0)
        /\ b_sets # <<>>
        /\ IF Head(b_sets).desc = <<>>
           THEN description = None
           ELSE shown_columns(Head(b_sets).desc, description)

\* a statement without result set run after one that had columns
C2_Witness ==
    /\ ret.op = "execute"
    /\ ret.exc = NoExc
    /\ description = None
    /\ converters # None

\* C3: when the backend raises during execute the caller gets that error
\* translated by convert_exception; description and rownumber are None and
\* the cursor is open, so that the next execute is not refused as closed.
C3_FailedExecute ==
    /\ [](ret.op = "execute" /\ ret.bexc # NoExc =>
             /\ ret.exc = [type |-> "StandardError", errno |-> ret.bexc.errno,
                           conv |-> 1]
             /\ description = None
             /\ rownumber = None
             /\ cursor = "handle")
    /\ [][(ret.op = "execute" /\ ret.bexc # NoExc /\ ret'.op = "execute") =>
             (ret'.exc # ClosedError /\ ret'.calls # <<>>)]_vars

\* a failed execute on a cursor that had shown columns before
C3_Witness ==
    /\ ret.op = "execute"
    /\ ret.bexc # NoExc
    /\ converters # None

\* C4: executemany with n non-empty parameter sets submits (sql, p1) only;
\* each later nextset submits the next pair, returns True and sets
\* rownumber to 0; the nextset after the last pair returns False, submits
\* nothing and clears the queue.  em.k counts the nextset calls made since.
C4_ExecuteManyQueue ==
    em.live =>
        /\ em.sub = [i \in 1..Min(em.k + 1, em.n) |-> <<em.oper, i>>]
        /\ ret.op = "executemany" =>
              /\ em.k = 0
              /\ ret.sub = <<<<em.oper, 1>>>>
              /\ Len(ret.calls) = 1
        /\ (ret.op = "nextset" /\ em.k < em.n) =>
              /\ ret.value = "True"
              /\ ret.sub = <<<<em.oper, em.k + 1>>>>
              /\ rownumber = Some(0)
        /\ (ret.op = "nextset" /\ em.k = em.n) =>
              /\ ret.value = "False"
              /\ ret.exc = NoExc
              /\ ret.sub = <<>>
              /\ ret.calls = <<>>
              /\ many_queries = None

\* three parameter sets, and the third nextset has just returned False
C4_Witness ==
    /\ em.live
    /\ em.n = 3
    /\ em.k = 3
    /\ ret.op = "nextset"


\* the last call was nextset and it went to the backend's own nextset
native_nextset == ret.op = "nextset" /\ ret.calls = <<BCall("nextset", 0)>>

\* C5: with no executemany queue pending, an error of the backend's nextset
\* whose code is not 2053 is raised to the caller, translated; nextset
\* returns neither True nor False for it.
C5_NextsetReraises ==
    (native_nextset /\ ret.bexc # NoExc /\ ret.bexc.errno # NoMoreResults) =>
        /\ ret.exc = [type |-> "StandardError", errno |-> ret.bexc.errno, conv |-> 1]
        /\ ret.value \notin {"True", "False"}

\* C6: with no queue pending, nextset returns False and raises nothing when
\* the backend has no further result set (it reports none or raises 2053),
\* and returns True, with rownumber 0, only when the backend moved on to
\* another result set.
C6_NextsetNoMoreSets ==
    native_nextset =>
        /\ (ret.bexc.errno = NoMoreResults \/ (ret.bexc = NoExc /\ b_sets = <<>>)) =>
              (ret.value = "False" /\ ret.exc = NoExc)
        /\ ret.value = "True" =>
              (rownumber = Some(0) /\ ret.bexc = NoExc /\ b_sets # <<>>)

FetchOps == {"fetchone", "fetchmany", "fetchall"}

\* C7: rownumber is None before any execute, 0 right after a successful
\* execute, and a fetch adds to it exactly the number of rows it handed to
\* the caller (none at the end of the result set); a fetch made while
\* rownumber is None leaves it None.
C7_RownumberCountsRows ==
    /\ [](ret.op = "conn.cursor" /\ ret.exc = NoExc => rownumber = None)
    /\ [](ret.op = "execute" /\ ret.exc = NoExc => rownumber = Some(0))
    /\ [][(cursor = "handle" /\ ret'.op \in FetchOps) =>
             IF rownumber = None THEN rownumber' = None
             ELSE rownumber' = Some(rownumber[1] + Len(ret'.rows))]_vars

\* C8: the rows handed to the caller by any mix of fetches come in order,
\* none twice and none skipped, and the backend's bulk fetch is never
\* called with size 1.
C8_NoRowTwice ==
    /\ returned.rows = Range(returned.start + 1, returned.start + Len(returned.rows))
    /\ \A i \in 1..Len(ret.calls) : ret.calls[i] # BCall("fetchmany", 1)

\* fetchone handed out row 1, then fetchmany with effective size 1 row 2
C8_Witness ==
    /\ ret.op = "fetchmany"
    /\ ret.calls = <<BCall("fetchone", 0)>>
    /\ ret.rows = <<2>>
    /\ returned = [start |-> 0, rows |-> <<1, 2>>]

\* C9: close on an open cursor calls the backend's close once; a
\* ReferenceError of that call is swallowed and the cursor ends closed with
\* _cursor and _conn cleared; any other error is raised translated.
C9_CursorClose ==
    [][(cursor = "handle" /\ ret'.op = "close") =>
          /\ ret'.calls = <<BCall("close", 0)>>
          /\ ret'.bexc = ReferenceError =>
                (ret'.exc = NoExc /\ cursor' = "None" /\ cur_conn' = "None")
          /\ ret'.bexc = NoExc =>
                (ret'.exc = NoExc /\ cursor' = "None" /\ cur_conn' = "None")
          /\ ret'.bexc.type = "NativeError" =>
                ret'.exc = [type |-> "StandardError", errno |-> ret'.bexc.errno,
                            conv |-> 1]]_vars

C9_Witness ==
    /\ ret.op = "close"
    /\ ret.bexc = ReferenceError
    /\ ret.exc = NoExc
    /\ cursor = "None"
    /\ cur_conn = "None"

\* the Connection methods and properties that refuse a closed connection
ConnOps == {"conn.cursor", "commit", "rollback", "autocommit", "conn.messages",
            "set_global_var", "set_session_var", "get_global_var",
            "get_session_var", "enable_http_api", "disable_http_api"}

\* C10: on a closed Connection each of these fails with
\* InterfaceError(2048) and nothing else, and the backend is not called.
C10_ClosedConnectionFails ==
    [][(c_conn = "None" /\ ret'.op \in ConnOps) =>
          /\ ret'.exc = ClosedError
          /\ ret'.calls = <<>>
          /\ ret'.sub = <<>>]_vars

C10_Witness ==
    /\ c_conn = "None"
    /\ ret.op = "enable_http_api"
    /\ ret.exc = ClosedError

\* C11: Connection.close is idempotent.  A closed connection stays closed;
\* close on a closed connection returns normally and calls nothing; close on
\* an open one calls the backend's close once and leaves the connection
\* closed, also when that call raised (the error is raised translated once).
\* So the backend's close is called at most once.
C11_ConnCloseIdempotent ==
    [][/\ c_conn = "None" => c_conn' = "None"
       /\ ret'.op = "conn.close" =>
             /\ c_conn' = "None"
             /\ IF c_conn = "None"
                THEN ret'.exc = NoExc /\ ret'.calls = <<>>
                ELSE /\ ret'.calls = <<BCall("conn.close", 0)>>
                     /\ ret'.exc = IF ret'.bexc = NoExc THEN NoExc
                                   ELSE [type |-> "StandardError",
                                         errno |-> ret'.bexc.errno,
                                         conv |-> 1]]_vars

\* a close on a connection that is already closed
C11_Witness ==
    /\ ret.op = "conn.close"
    /\ ret.calls = <<>>
    /\ ret.exc = NoExc
    /\ c_conn = "None"

\* C12: Connection.is_connected on a closed connection returns False,
\* raises nothing and asks nothing of the driver; Cursor.is_connected
\* returns False when the cursor or its connection is closed; either
\* returns True only when the connection is open and the driver's probe
\* answered True.
C12_IsConnected ==
    [][/\ (ret'.op = "is_connected" /\ c_conn = "None") =>
             (ret'.value = "False" /\ ret'.exc = NoExc /\ ret'.calls = <<>>)
       /\ (ret'.op = "cursor.is_connected" /\ (cursor = "None" \/ c_conn = "None")) =>
             (ret'.value = "False" /\ ret'.exc = NoExc /\ ret'.calls = <<>>)
       /\ (ret'.op \in {"is_connected", "cursor.is_connected"}
              /\ ret'.value = "True") =>
             (c_conn = "session" /\ ret'.ans = "True")]_vars

\* an open cursor asked after its connection was closed
C12_Witness ==
    /\ ret.op = "cursor.is_connected"
    /\ cursor = "handle"
    /\ c_conn = "None"
    /\ ret.value = "False"

\* the operations that call the backend (connect has returned in Init)
BackendOps == {"conn.cursor", "commit", "rollback", "conn.close", "close",
               "execute", "executemany", "fetchone", "fetchmany", "fetchall",
               "nextset", "scroll", "setinputsizes", "setoutputsize",
               "is_connected", "cursor.is_connected"}

\* C13: an error raised by the backend inside one of these operations
\* reaches the caller translated by convert_exception exactly once, never
\* native and never dropped; only the "no more results" error of nextset
\* and the ReferenceError of the cursor's close may be swallowed.
C13_TranslatedOnce ==
    (ret.op \in BackendOps /\ ret.bexc # NoExc) =>
        IF \/ (ret.op = "nextset" /\ ret.bexc.errno = NoMoreResults)
           \/ (ret.op = "close" /\ ret.bexc = ReferenceError)
        THEN TRUE
        ELSE ret.exc = [type |-> "StandardError", errno |-> ret.bexc.errno,
                        conv |-> 1]

\* C14: when a with block over a Cursor or a Connection is left, the
\* object has released its handle and the block has raised nothing of its
\* own (what leaves it is what the body raised, if anything), whether the
\* body completed, raised, or had closed the object itself.  The backend's
\* close is taken not to fail here, a ReferenceError of the cursor's close
\* apart.
C14_ScopedRelease ==
    /\ (ret.op = "cursor.__exit__" /\ ret.bexc \in {NoExc, ReferenceError}) =>
           (cursor = "None" /\ ret.exc = ret.inflight)
    /\ ret.op = "conn.__exit__" =>
           (c_conn = "None" /\ (ret.bexc = NoExc => ret.exc = ret.inflight))

\* the last call was build_params and it returned a record
built == ret.op = "build_params" /\ ret.exc = NoExc

\* the parts the host argument was written from, when it is a URL
host_parts ==
    IF "host" \in DOMAIN kwargs
    THEN {p \in UrlParts : kwargs["host"].val = url_texts[p]}
    ELSE {}

\* the host argument has one of the marks of a URL (so it has more than a name)
host_is_url ==
    \E p \in host_parts :
        p.scheme # None \/ p.username # None \/ p.port # None
        \/ p.path # <<>> \/ p.query # <<>>

\* a key outside the names of connect(): given by keyword, or written with
\* a value in the query string of the URL
unknown_by_keyword ==
    \E k \in DOMAIN kwargs : k \notin KnownNames /\ kwargs[k] # NoneV
unknown_in_query ==
    host_is_url /\ \E p \in host_parts : \E i \in 1..Len(p.query) :
        /\ key_of(str_lower(p.query[i][1])) \notin KnownNames
        /\ p.query[i][2] # <<>>

\* C15: build_params returns a record whose keys are all names of connect()
\* with values of the declared types, or raises ValueError and returns
\* nothing; a key outside those names, given by keyword or in the URL's
\* query string, always makes it fail (with the "unrecognized connection
\* parameter" message unless a value before it could not be cast).
C15_BuildParamsComplete ==
    ret.op = "build_params" =>
        /\ ret.exc = NoExc =>
              \A k \in DOMAIN ret.value :
                  k \in KnownNames /\ ret.value[k].kind = param_types[k]
        /\ ret.exc # NoExc => ret.exc = ValueError
        /\ (unknown_by_keyword \/ unknown_in_query) =>
              /\ ret.exc = ValueError
              /\ ret.value \in {UnrecognizedParameter, UnrecognizedBool, InvalidLiteral}

TrueSpellings == UNION {CaseVariants(w) : w \in TrueWords}
FalseSpellings == UNION {CaseVariants(w) : w \in FalseWords}

\* C16: cast_bool_param gives True for 1 and for every spelling of the
\* true words, False for 0 and for every spelling of the false words, and
\* raises ValueError for any other value that is not None (1 and 0 may be
\* given as int, as bool or as a str of that digit).
C16_CastBool ==
    ret.op = "cast_bool_param" =>
        LET v == kwargs["local_infile"] IN
        IF v \in {IntV(1), BoolV(TRUE), StrV(<<"1">>)}
           \/ (v.kind = "str" /\ v.val \in TrueSpellings)
        THEN ret.exc = NoExc /\ ret.value = BoolV(TRUE)
        ELSE IF v \in {IntV(0), BoolV(FALSE), StrV(<<"0">>)}
                \/ (v.kind = "str" /\ v.val \in FalseSpellings)
        THEN ret.exc = NoExc /\ ret.value = BoolV(FALSE)
        ELSE ret.exc = ValueError /\ ret.value = UnrecognizedBool

\* the ports resolved from the arguments: the URL's and the keyword's
\* (0 and None count as no port)
resolved_ports ==
    {IntV(p.port[1]) : p \in {q \in host_parts : host_is_url /\ q.port \notin {None, Some(0)}}}
    \cup {IntV(int_cast(kwargs[k]).n) :
            k \in {j \in DOMAIN kwargs : j = "port" /\ int_cast(kwargs[j]).n # 0}}

\* C17: the record returned by build_params always has a port; it is a
\* port resolved from the arguments when there is one, and otherwise, when
\* the options supply no port, 80 for the driver http, 443 for https and
\* 3306 for any other driver.
C17_PortDefault ==
    built =>
        /\ "port" \in DOMAIN ret.value
        /\ ret.value["port"].kind = "int"
        /\ resolved_ports # {} => ret.value["port"] \in resolved_ports
        /\ (resolved_ports = {} /\ options = DefaultOptions) =>
              ret.value["port"] =
                  IF ret.value["driver"] = StrV(s_http) THEN IntV(80)
                  ELSE IF ret.value["driver"] = StrV(s_https) THEN IntV(443)
                  ELSE IntV(3306)

\* no port in the arguments, the driver https: the port is 443
C17_Witness ==
    /\ built
    /\ resolved_ports = {}
    /\ options = DefaultOptions
    /\ ret.value["driver"] = StrV(s_https)
    /\ ret.value["port"] = IntV(443)

\* C18: a record returned by build_params that has no user has no
\* password either.
C18_PasswordNeedsUser ==
    built => ("user" \notin DOMAIN ret.value => "password" \notin DOMAIN ret.value)

\* C19: with a driver given by keyword and a URL-shaped host, the record
\* returned by build_params has the driver given by keyword.
C19_ExplicitDriverWins ==
    (built /\ host_is_url /\ "driver" \in DOMAIN kwargs /\ kwargs["driver"] # NoneV) =>
        ret.value["driver"] = kwargs["driver"]

\* the code whose converter a column is to be given: for a column with the
\* SET bit the ENUM/SET code, for any other column its own code; -1 stands
\* for no converter, when none is registered under that code
expected_converter(col) ==
    LET code == IF HasBit(col.flags, 2048) THEN ENUM ELSE col.type_code
    IN  IF code \in driver_converters THEN code ELSE -1

\* C20: in the metadata of a result set a column with the SET bit (2048)
\* has the converter registered under the ENUM/SET type code, whatever its
\* own type code; a column without the bit has the converter of its own
\* type code; a column for which none is registered has no converter.
C20_SetFlagConverter ==
    description # None =>
        /\ converters # None
        /\ \A i \in 1..Len(description) :
              LET given == {j \in 1..Len(converters[1]) : converters[1][j][1] = i - 1}
              IN  IF expected_converter(description[i]) = -1
                  THEN given = {}
                  ELSE /\ Cardinality(given) = 1
                       /\ \A j \in given :
                             converters[1][j][2] = expected_converter(description[i])

\* a column of type 3 with the SET bit has the converter of code 247, and
\* the column of type 254 without the bit has none
C20_Witness ==
    /\ description # None
    /\ Len(description) = 4
    /\ description[3].type_code = 3
    /\ HasBit(description[3].flags, 2048)
    /\ converters = Some(<<<<0, 247>>, <<1, 247>>, <<2, 247>>>>)

\* the strict identifier pattern: a leading letter or underscore, then
\* letters, digits and underscores only
strict_identifier(name) ==
    /\ name # <<>>
    /\ name[1] \in {"a", "_"}
    /\ \A i \in 2..Len(name) : name[i] \in {"a", "1", "_"}

NamedOps == {"set_global_var", "set_session_var", "get_global_var",
             "get_session_var", "callproc"}

\* C21: set_global_var, set_session_var, get_global_var, get_session_var and
\* callproc send the backend a statement built around a name only if the
\* stripped name is a strict identifier; for any other name no statement
\* holding it reaches the backend.
C21_NameValidated ==
    ret.op \in NamedOps =>
        \A i \in 1..Len(ret.sub) : strict_identifier(ret.sub[i][1].name)

\* the variable a get_session_var call asked for
asked == ret.sub[1][1].name

\* C22: on a backend that stores what it is sent, get_session_var after
\* set_session_var(v=True) returns the boolean True and after
\* set_session_var(v=False) the boolean False, never a string; True and
\* False are sent as the tokens ON and OFF.
C22_BoolRoundTrip ==
    /\ \A n \in StoredNames :
          /\ b_session_vars[n].given = "True" => b_session_vars[n].sent = "ON"
          /\ b_session_vars[n].given = "False" => b_session_vars[n].sent = "OFF"
    /\ (ret.op = "get_session_var" /\ ret.exc = NoExc
        /\ b_session_vars[asked].given \in {"True", "False"})
       => ret.value = b_session_vars[asked].given

C22_Witness ==
    /\ ret.op = "get_session_var" /\ ret.exc = NoExc
    /\ b_session_vars[asked].given = "False"
    /\ b_session_vars[asked].sent = "OFF"
    /\ ret.value = "False"

\* C23: the mysql-connector adapter's is_connected reports False for every
\* failure of the session's ping and True only when the ping succeeded; no
\* failure of the ping leaves it as an exception.
C23_PingTolerant ==
    ret.op = "driver.is_connected" =>
        /\ ret.exc = NoExc
        /\ ret.value = IF ret.bexc = NoExc THEN "True" ELSE "False"

\* the description of the result set the backend cursor is positioned on
current_description ==
    IF b_description(b_sets) = <<>> THEN None
    ELSE [i \in 1..Len(b_description(b_sets)) |-> describe(b_description(b_sets)[i])]

\* C24: after every nextset() call, description describes the result set the
\* cursor is now positioned on and is None when no result set is active
\* (nextset returned False, or the new result set has no columns); the column
\* list of an earlier result set is never kept.
C24_NextsetDescription ==
    (ret.op = "nextset" /\ ret.exc = NoExc) =>
        description = IF ret.value = "True" THEN current_description ELSE None

\* the cursor operations that call the backend cursor
CursorBackendOps == {"execute", "executemany", "callproc", "fetchone", "fetchmany",
                     "fetchall", "nextset", "scroll", "setinputsizes",
                     "setoutputsize", "next", "close"}

\* a backend error met by a cursor of a closed connection reached the caller
\* translated, or was swallowed by close (or was nextset's "no more results")
surfaced_translated ==
    \/ ret.exc # NoExc /\ ret.exc.conv >= 1 /\ ret.exc.type # "NativeError"
    \/ ret.op = "close" /\ ret.exc = NoExc
    \/ ret.op = "nextset" /\ ret.bexc.errno = NoMoreResults /\ ret.exc = NoExc

\* C25: Connection.close() changes no state of the cursors made from the
\* connection (handle, rownumber, description, executemany queue; the cursor
\* is not marked closed), and a backend call that fails afterwards through
\* such a cursor reaches the caller as a translated standard error (or is
\* swallowed, for close), never untranslated.
C25_CloseLeavesCursors ==
    [][/\ ret'.op \in {"conn.close", "conn.__exit__"} =>
             UNCHANGED <<cursor, cur_conn, rownumber, description, converters,
                         many_queries>>
       /\ (c_conn' = "None" /\ cursor' = "handle" /\ ret'.op \in CursorBackendOps
           /\ ret'.bexc # NoExc)
          => surfaced_translated']_vars

\* the statements of enable_http_api(port) and of disable_http_api, in order
set_global_sent(name, token) == <<Stmt("set global", 0, name), token>>
enable_sent(port) ==
    (IF port # "None" THEN <<set_global_sent(http_proxy_port, port)>> ELSE <<>>)
    \o <<set_global_sent(http_api, "ON"), <<restart_proxy, 0>>,
         <<Stmt("show global", 0, http_proxy_port), 0>>>>
disable_sent == <<set_global_sent(http_api, "OFF"), <<restart_proxy, 0>>>>

is_prefix(s, t) == Len(s) <= Len(t) /\ s = SubSeq(t, 1, Len(s))

\* C26: enable_http_api(port) sends set global http_proxy_port (only with a
\* port), set global http_api ON, restart proxy, then the read of
\* http_proxy_port whose value it returns; disable_http_api sends set global
\* http_api OFF, then restart proxy.  What was sent is always a prefix of
\* that list (so the restart never precedes the flag and is sent at most
\* once), the whole list when the call returns, and a call that stopped at
\* the restart raises the translated error.
C26_HttpApiOrder ==
    /\ ret.op = "enable_http_api" =>
          \E port \in Ports :
              /\ is_prefix(ret.sub, enable_sent(port))
              /\ ret.exc = NoExc => ret.sub = enable_sent(port)
              /\ (ret.sub # <<>> /\ Len(ret.sub) = Len(enable_sent(port)) - 1)
                    => (ret.exc # NoExc /\ ret.exc.conv >= 1)
    /\ ret.op = "disable_http_api" =>
          /\ is_prefix(ret.sub, disable_sent)
          /\ ret.exc = NoExc => ret.sub = disable_sent
    /\ (ret.op = "enable_http_api" /\ ret.exc = NoExc) => ret.value \in {"str:x"}

\* enable_http_api with a port stopped by the failing restart
C26_Witness ==
    /\ ret.op = "enable_http_api"
    /\ Len(ret.sub) = 3
    /\ ret.sub[3] = <<restart_proxy, 0>>
    /\ ret.bexc # NoExc
    /\ ret.exc.type = "StandardError"

\* the parameter sets nextset would still submit
pending_pairs == IF many_queries = None THEN <<>> ELSE many_queries[1].rest

\* the call just made ran a statement that is not a queued executemany: a
\* plain execute (or callproc), or an executemany whose first parameter set
\* is empty
plain_statement(r) ==
    /\ r.sub # <<>>
    /\ \/ r.op \in {"execute", "callproc"}
       \/ r.op = "executemany" /\ r.sub[1][2] = 0

\* C27: the executemany queue belongs to the executemany call that made it:
\* once a later plain execute (or an executemany with an empty first
\* parameter set) has run on the cursor, no pair of an earlier executemany is
\* left for nextset to submit.
C27_QueueBelongsToCall ==
    [][plain_statement(ret') => pending_pairs' = <<>>]_vars

\* C28: on an open cursor rownumber is None or an integer from 0 to the
\* number of rows of the current result set, after any sequence of execute,
\* fetchone, fetchmany, fetchall, nextset and scroll calls.
C28_RownumberInRange ==
    (cursor = "handle" /\ rownumber # None) =>
        rownumber[1] \in 0..b_nrows(b_sets)

\* C29: on an open cursor the per-column converter list is defined and
\* matches the current description: empty when description is None (fresh
\* cursor, or no result set from the last statement), and otherwise holding
\* only column indexes of the current description.
C29_ConvertersMatchDescription ==
    cursor = "handle" =>
        /\ converters # None
        /\ IF description = None THEN converters[1] = <<>>
           ELSE \A j \in 1..Len(converters[1]) :
                   converters[1][j][1] \in 0..(Len(description) - 1)

\* a task that has called wait_for_startup() and has not come back from it
awaiting(w) == server.waiter[w].at = "waiting"

\* C30: wait_for_startup() blocks until the server listens or startup has
\* thrown: it comes back only after startup() has finished, returns normally
\* only if startup() succeeded, raises the startup error if startup() failed,
\* the startup future is resolved at most once, and whenever the serve() task
\* has ended a task awaiting wait_for_startup() eventually comes back.
C30_Completion ==
    \A w \in Waiters :
        /\ server.waiter[w].at = "returned" => server.startup = "returned"
        /\ (server.waiter[w].at = "raised" /\ server.serve # "none") =>
               /\ server.startup = "raised"
               /\ server.waiter[w].exc = server.serve_exc
        /\ server.future.resolved <= 1

C30_WaitForStartup ==
    /\ []C30_Completion
    /\ \A w \in Waiters :
           (server.serve = "ended" /\ awaiting(w)) ~> ~awaiting(w)

====
